---------------------------- MODULE Spec2Model ----------------------------
(***************************************************************************)
(* A model of ncdb_tools: the fixed-width decoder (dataset_builder.py),    *)
(* the schema reconciler and the transform engine (_internal/transform.py),*)
(* the query facade (query.py), the build pipeline (builder.py) and the    *)
(* data dictionary writer (data_dictionary.py).                            *)
(*                                                                         *)
(* Text is a sequence of one-character strings.  A line of a data file is  *)
(* kept as [text, len, nl]: the characters `text`, padded with blanks to   *)
(* `len` characters, followed by a newline when `nl`; this lets the model  *)
(* use the real record length without enumerating 1032 characters.         *)
(***************************************************************************)
EXTENDS Integers, Sequences, FiniteSets, TLC

VARIABLES
    pc,            \* position of the running operation
    input_file,    \* build_dataset: the lines of the .dat file, in order
    columns_file,  \* build_dataset: rows of the columns.csv override, or NoFile
    sas_layout,    \* build_dataset: the positions declared by the SAS layout
    batch_size,    \* build_dataset: rows per batch
    column_defs,   \* build_dataset: the field definitions in use
    pos,           \* build_dataset: number of lines consumed by the loop
    batch_data,    \* build_dataset: rows of the batch being filled
    batches,       \* build_dataset: the completed batches
    df,            \* build_dataset: the decoded table (a sequence of Records)
    parquet_files, \* determine_global_schema: the schema of each file
    file_idx,      \* determine_global_schema: files scanned so far
    all_columns,   \* determine_global_schema: union of the column names
    column_types,  \* determine_global_schema: column -> list of observed types
    optimal_schema,\* determine_global_schema: column -> resolved type
    table,         \* apply_ncdb_specific_transformations: the table worked on
    dataset,       \* NCDBQuery: the parquet data the query was opened on
    _lf,           \* NCDBQuery: the lazy plan, a sequence of steps
    returned,      \* NCDBQuery: what the last call returned or raised
    build_args,    \* build_parquet_dataset: the arguments of the build
    fs,            \* build_parquet_dataset: the files made, <<build, name>>
    handlers,      \* build_parquet_dataset: builds whose handler is attached
    log,           \* build_parquet_dataset: the records in the build logs
    outcomes,      \* build_parquet_dataset: how each build ended
    originals,     \* apply_transformations: the tables of the files read
    outputs,       \* apply_transformations: the tables written back
    value_formats, \* build_dataset: column -> (code -> label), from the layout
    input_path,    \* build_dataset: the directory and the name of the .dat file
    runs,          \* apply_transformations: the runs completed on the files
    dict_args,     \* generate_from_parquet: the arguments of the call
    fmt_idx,       \* generate_from_parquet: formats written so far
    output_paths,  \* generate_from_parquet: format -> path written
    dict_result    \* generate_from_parquet: what the call returned or raised

vars == <<pc, input_file, columns_file, sas_layout, batch_size, column_defs,
          pos, batch_data, batches, df, parquet_files, file_idx, all_columns,
          column_types, optimal_schema, table, dataset, _lf, returned,
          build_args, fs, handlers, log, outcomes, originals, outputs,
          value_formats, input_path, runs, dict_args, fmt_idx, output_paths,
          dict_result>>

decode_vars == <<input_file, columns_file, sas_layout, batch_size,
                 column_defs, pos, batch_data, batches, df>>
schema_vars == <<parquet_files, file_idx, all_columns, column_types,
                 optimal_schema>>
query_vars == <<dataset, _lf, returned>>
build_vars == <<build_args, fs, handlers, log, outcomes>>
apply_vars == <<originals, outputs, runs>>
finish_vars == <<value_formats, input_path>>
dict_vars == <<dict_args, fmt_idx, output_paths, dict_result>>
later_vars == <<query_vars, build_vars, apply_vars, finish_vars, dict_vars>>

-----------------------------------------------------------------------------
(* Bounds of the model *)

MaxLines == 3
MaxBatch == 3
MaxFields == 2

(* Program constants *)

NCDB_RECORD_LENGTH == 1032

-----------------------------------------------------------------------------
(* Text helpers: Python's str operations as the decoder uses them *)

Whitespace == {" ", "\t", "\n"}

\* the optional columns_file argument: absent, or the rows of the file
NoFile == [supplied |-> FALSE, rows |-> <<>>]
ColumnsFile(rows) == [supplied |-> TRUE, rows |-> rows]

Min(S) == CHOOSE m \in S : \A k \in S : m <= k
Max(S) == CHOOSE m \in S : \A k \in S : m >= k

\* len(line), the newline included
LineLen(line) == line.len + (IF line.nl THEN 1 ELSE 0)

\* line[i], 0-based, for 0 <= i < len(line)
LineChar(line, i) ==
    IF i < Len(line.text) THEN line.text[i + 1]
    ELSE IF i < line.len THEN " "
    ELSE "\n"

\* not line.strip(): every character is whitespace
StripIsEmpty(line) ==
    \A i \in 1..Len(line.text) : line.text[i] \in Whitespace

\* len(line.rstrip('\n')): the length once every trailing newline is removed
RECURSIVE RstripNewlineLen(_, _)
RstripNewlineLen(line, n) ==
    IF n > 0 /\ LineChar(line, n - 1) = "\n"
    THEN RstripNewlineLen(line, n - 1)
    ELSE n

\* Python's slice bounds: a negative index counts from the end, and both
\* ends are clamped to the string
SliceIndex(i, n) ==
    IF i < 0 THEN (IF n + i < 0 THEN 0 ELSE n + i)
    ELSE (IF i > n THEN n ELSE i)

\* line[start:end]
PySlice(line, start, end) ==
    LET n  == LineLen(line)
        lo == SliceIndex(start, n)
        hi == SliceIndex(end, n)
    IN  IF hi <= lo THEN <<>>
        ELSE [k \in 1..(hi - lo) |-> LineChar(line, lo + k - 1)]

\* s.strip()
Strip(s) ==
    LET keep == {i \in 1..Len(s) : s[i] \notin Whitespace}
    IN  IF keep = {} THEN <<>> ELSE SubSeq(s, Min(keep), Max(keep))

-----------------------------------------------------------------------------
(* dataset_builder.py *)

\* a variant that keeps the 1-based start column
_load_column_definitions_one_based(rows) ==
    [i \in 1..Len(rows) |->
        [name |-> rows[i].name, start |-> rows[i].start, end |-> rows[i].end,
         width |-> rows[i].end - rows[i].start]]

\* _load_column_definitions: one definition per row of the columns file
_load_column_definitions(rows) ==
    [i \in 1..Len(rows) |->
        LET name  == rows[i].name
            start == rows[i].start - 1
            end   == rows[i].end
        IN  [name |-> name, start |-> start, end |-> end,
             width |-> end - start]]

\* parse_column_positions (_internal/sas_parser.py): the layout's 1-based
\* inclusive positions become 0-based [start, end) definitions
parse_column_positions(layout) ==
    [i \in 1..Len(layout) |->
        [name  |-> layout[i].name,
         start |-> layout[i].start - 1,
         end   |-> layout[i].end,
         width |-> layout[i].end - layout[i].start + 1]]

\* _parse_line: the loop over column_defs, from definition i on
RECURSIVE ParseFrom(_, _, _, _)
ParseFrom(line, defs, i, row) ==
    IF i > Len(defs) THEN row
    ELSE LET col_def == defs[i]
             value   == Strip(PySlice(line, col_def.start, col_def.end))
         IN  ParseFrom(line, defs, i + 1, (col_def.name :> value) @@ row)

\* a variant that keeps the surrounding whitespace of every value
_parse_line_untrimmed(line, defs) ==
    [n \in {defs[i].name : i \in 1..Len(defs)} |->
        LET last == defs[Max({i \in 1..Len(defs) : defs[i].name = n})]
        IN  PySlice(line, last.start, last.end)]

_parse_line(line, defs) == ParseFrom(line, defs, 1, <<>>)

\* the two tests of the read loop that skip a line
IsEmptyLine(line) == StripIsEmpty(line)

\* a variant that measures the line with its newline
IsInvalidLength_with_newline(line) == LineLen(line) # NCDB_RECORD_LENGTH

IsInvalidLength(line) ==
    RstripNewlineLen(line, LineLen(line)) # NCDB_RECORD_LENGTH

\* pl.concat(batches) if batches else pl.DataFrame()
RECURSIVE Concat(_)
Concat(bs) == IF bs = <<>> THEN <<>> ELSE Head(bs) \o Concat(Tail(bs))

\* a variant that forgets the rows left after the last full batch
RemainingBatches_dropped(done, rest) == done

\* lines 110-112: the rows left after the loop form the last batch
RemainingBatches(done, rest) ==
    IF rest # <<>> THEN Append(done, rest) ELSE done

\* the batch is closed when it holds batch_size rows
BatchFull(data, size) == Len(data) >= size

\* build_dataset, lines 61-77: choose the field definitions
LoadColumns ==
    /\ pc = "load"
    /\ IF columns_file.supplied
       THEN /\ column_defs' = _load_column_definitions(columns_file.rows)
            /\ pc' = "read"
       ELSE /\ column_defs' = parse_column_positions(sas_layout)
            /\ pc' = IF column_defs' = <<>> THEN "value_error" ELSE "read"
    /\ UNCHANGED <<input_file, columns_file, sas_layout, batch_size, pos,
                   batch_data, batches, df, schema_vars, table, later_vars>>

\* build_dataset, lines 90-107: one iteration of the loop over the file
ReadLine ==
    /\ pc = "read"
    /\ pos < Len(input_file)
    /\ LET line == input_file[pos + 1]
       IN  IF IsEmptyLine(line) \/ IsInvalidLength(line)
           THEN UNCHANGED <<batch_data, batches>>
           ELSE LET row_data == _parse_line(line, column_defs)
                    filled   == Append(batch_data, row_data)
                IN  IF BatchFull(filled, batch_size)
                    THEN /\ batches' = Append(batches, filled)
                         /\ batch_data' = <<>>
                    ELSE /\ batch_data' = filled
                         /\ UNCHANGED batches
    /\ pos' = pos + 1
    /\ UNCHANGED <<pc, input_file, columns_file, sas_layout, batch_size,
                   column_defs, df, schema_vars, table, later_vars>>

\* build_dataset, lines 109-115: the remaining rows, then the concatenation
FinishRead ==
    /\ pc = "read"
    /\ pos = Len(input_file)
    /\ LET closed == RemainingBatches(batches, batch_data)
       IN  /\ batches' = closed
           /\ df' = Concat(closed)
    /\ pc' = "decoded"
    /\ UNCHANGED <<input_file, columns_file, sas_layout, batch_size,
                   column_defs, pos, batch_data, schema_vars, table, later_vars>>

NextDecode == LoadColumns \/ ReadLine \/ FinishRead

-----------------------------------------------------------------------------
(* constants.py *)

STRING_VARIABLES ==
    {"PUF_CASE_ID", "PUF_FACILITY_ID", "YEAR_OF_DIAGNOSIS", "ZIP",
     "FACILITY_TYPE_CD", "FACILITY_LOCATION_CD"}

SITE_COLUMNS == {"PRIMARY_SITE"}

HISTOLOGY_COLUMNS == {"HISTOLOGY", "HISTOLOGY_ICDO3", "BEHAVIOR"}

CLASSIFICATION_COLUMNS == {"LATERALITY", "CLASS_OF_CASE", "SEQUENCE_NUMBER"}

NEVER_NUMERIC ==
    STRING_VARIABLES \cup SITE_COLUMNS \cup HISTOLOGY_COLUMNS
        \cup CLASSIFICATION_COLUMNS

NEVER_NUMERIC_COLUMNS == NEVER_NUMERIC

-----------------------------------------------------------------------------
(* _internal/transform.py: the schema reconciler *)

\* a data type is known by the name str() gives it
Utf8 == "String"
Float64 == "Float64"
Int64 == "Int64"
Boolean == "Boolean"

\* 'Utf8' in t or 'String' in t (for the names of scalar types, containing
\* a name is being that name)
IsStringName(t) == t \in {"Utf8", "String"}

\* a variant that keeps the type of the first file
resolve_column_type_first(types) == types[1]

\* a variant that prefers Int64 to Float64
resolve_column_type_int_first(types) ==
    LET unique_types == {types[i] : i \in 1..Len(types)}
    IN  IF Cardinality(unique_types) = 1 THEN types[1]
        ELSE IF \E i \in 1..Len(types) : IsStringName(types[i]) THEN Utf8
        ELSE IF \E i \in 1..Len(types) : types[i] = "Int64" THEN Int64
        ELSE IF \E i \in 1..Len(types) : types[i] = "Float64" THEN Float64
        ELSE Utf8

\* resolve_column_type
resolve_column_type(types) ==
    LET unique_types == {types[i] : i \in 1..Len(types)}
    IN  IF Cardinality(unique_types) = 1 THEN types[1]
        ELSE IF \E i \in 1..Len(types) : IsStringName(types[i]) THEN Utf8
        ELSE IF \E i \in 1..Len(types) : types[i] = "Float64" THEN Float64
        ELSE IF \E i \in 1..Len(types) : types[i] = "Int64" THEN Int64
        ELSE Utf8

\* a variant without the never-numeric rule
OptimalType_majority_only(col, types) == resolve_column_type(types)

\* determine_global_schema, lines 76-82: the type chosen for one column
OptimalType(col, types) ==
    IF col \in NEVER_NUMERIC_COLUMNS THEN Utf8
    ELSE resolve_column_type(types)

\* determine_global_schema, lines 65-72: the schema of one more file is read
ScanSchema ==
    /\ pc = "scan"
    /\ file_idx < Len(parquet_files)
    /\ LET df_schema == parquet_files[file_idx + 1]
           names     == DOMAIN df_schema
       IN  /\ all_columns' = all_columns \cup names
           /\ column_types' =
                 [col \in (DOMAIN column_types) \cup names |->
                     LET seen == IF col \in DOMAIN column_types
                                 THEN column_types[col] ELSE <<>>
                     IN  IF col \in names
                         THEN Append(seen, df_schema[col]) ELSE seen]
    /\ file_idx' = file_idx + 1
    /\ UNCHANGED <<pc, parquet_files, optimal_schema, decode_vars, table, later_vars>>

\* a variant that settles the types once one file has been read
ResolveSchema_after_first_file ==
    /\ pc = "scan"
    /\ file_idx >= 1
    /\ optimal_schema' =
          [col \in all_columns |-> OptimalType(col, column_types[col])]
    /\ pc' = "schema_done"
    /\ UNCHANGED <<parquet_files, file_idx, all_columns, column_types,
                   decode_vars, table, later_vars>>

\* determine_global_schema, lines 74-84: every column gets its type
ResolveSchema ==
    /\ pc = "scan"
    /\ file_idx = Len(parquet_files)
    /\ optimal_schema' =
          [col \in all_columns |-> OptimalType(col, column_types[col])]
    /\ pc' = "schema_done"
    /\ UNCHANGED <<parquet_files, file_idx, all_columns, column_types,
                   decode_vars, table, later_vars>>

NextSchema == ScanSchema \/ ResolveSchema

-----------------------------------------------------------------------------
(* _internal/transform.py: the domain derivations *)

\* The cells of a table: a string (its characters), an integer, a boolean,
\* or null.  A label that is only ever compared is kept as one piece.
StrV(chars) == [str |-> chars]
IntV(n) == [int |-> n]
BoolV(b) == [bool |-> b]
Null == [null |-> TRUE]
Label(s) == [str |-> <<s>>]

IsNull(cell) == "null" \in DOMAIN cell

Digits == <<"0", "1", "2", "3", "4", "5", "6", "7", "8", "9">>

IsDigit(c) == \E d \in 1..10 : Digits[d] = c

DigitValue(c) == (CHOOSE d \in 1..10 : Digits[d] = c) - 1

\* the value of a string of decimal digits
RECURSIVE DecimalValue(_)
DecimalValue(chars) ==
    IF chars = <<>> THEN 0
    ELSE 10 * DecimalValue(SubSeq(chars, 1, Len(chars) - 1))
            + DigitValue(chars[Len(chars)])

\* pl.col(c).cast(pl.Int64, strict=False) on a string column: the number a
\* string of digits denotes, null for anything else
CastStrToInt64(cell) ==
    IF IsNull(cell) THEN Null
    ELSE IF cell.str # <<>> /\ \A i \in 1..Len(cell.str) : IsDigit(cell.str[i])
    THEN IntV(DecimalValue(cell.str))
    ELSE Null

\* pl.col(c) == literal: null when the cell is null; a number equals no text
EqLiteral(cell, chars) ==
    IF IsNull(cell) THEN Null
    ELSE BoolV("str" \in DOMAIN cell /\ cell.str = chars)

\* pl.col(c).cast(pl.Int64, strict=False): an Int64 column is left as it is
CastToInt64(cell) ==
    IF "int" \in DOMAIN cell THEN cell ELSE CastStrToInt64(cell)

\* pl.col(c).str.starts_with(prefix): null when the cell is null
StartsWith(cell, prefix) ==
    IF IsNull(cell) THEN Null
    ELSE BoolV(/\ Len(cell.str) >= Len(prefix)
               /\ \A i \in 1..Len(prefix) : cell.str[i] = prefix[i])

\* pl.when(cond).then(a).otherwise(b): a where cond is true, b where it is
\* false or null
WhenThenOtherwise(cond, a, b) == IF cond = BoolV(TRUE) THEN a ELSE b

NinetyPlus == <<"9", "0", "+">>

\* a variant without the "90+" sentinel
AgeAsInt_cast_only(age) == CastStrToInt64(age)

\* lines 161-164: AGE_AS_INT
AgeAsInt(age) ==
    WhenThenOtherwise(EqLiteral(age, NinetyPlus), IntV(90),
                      CastToInt64(age))

\* lines 167-170: AGE_IS_90_PLUS
AgeIs90Plus(age) ==
    WhenThenOtherwise(EqLiteral(age, NinetyPlus), BoolV(TRUE), BoolV(FALSE))

\* a variant in which C72 is missing from the rules
SiteRules_without_C72 ==
    << [prefix |-> <<"C", "5", "0">>, group |-> "Breast"],
       [prefix |-> <<"C", "7", "8">>, group |-> "Lymph Node"],
       [prefix |-> <<"C", "7", "7">>, group |-> "Lymph Node"],
       [prefix |-> <<"C", "7", "1">>, group |-> "Brain/CNS"],
       [prefix |-> <<"C", "4", "3">>, group |-> "Skin/Melanoma"],
       [prefix |-> <<"C", "4", "4">>, group |-> "Skin/Melanoma"] >>

\* create_site_groups_expr: the when/then pairs, in order
SiteRules ==
    << [prefix |-> <<"C", "5", "0">>, group |-> "Breast"],
       [prefix |-> <<"C", "7", "8">>, group |-> "Lymph Node"],
       [prefix |-> <<"C", "7", "7">>, group |-> "Lymph Node"],
       [prefix |-> <<"C", "7", "1">>, group |-> "Brain/CNS"],
       [prefix |-> <<"C", "7", "2">>, group |-> "Brain/CNS"],
       [prefix |-> <<"C", "4", "3">>, group |-> "Skin/Melanoma"],
       [prefix |-> <<"C", "4", "4">>, group |-> "Skin/Melanoma"] >>

\* a variant with one more rule, whose prefix starts the prefix of a rule of
\* another group
HistologyRules_overlapping ==
    << [prefix |-> <<"8", "1", "4">>, group |-> "Adenocarcinoma"],
       [prefix |-> <<"8", "0", "5">>, group |-> "Squamous Cell Carcinoma"],
       [prefix |-> <<"8", "7", "2">>, group |-> "Melanoma"],
       [prefix |-> <<"9", "5", "9">>, group |-> "Lymphoma"],
       [prefix |-> <<"9", "6", "7">>, group |-> "Lymphoma"],
       [prefix |-> <<"8", "1">>, group |-> "Carcinoma"] >>

\* create_histology_groups_expr: the when/then pairs, in order
HistologyRules ==
    << [prefix |-> <<"8", "1", "4">>, group |-> "Adenocarcinoma"],
       [prefix |-> <<"8", "0", "5">>, group |-> "Squamous Cell Carcinoma"],
       [prefix |-> <<"8", "7", "2">>, group |-> "Melanoma"],
       [prefix |-> <<"9", "5", "9">>, group |-> "Lymphoma"],
       [prefix |-> <<"9", "6", "7">>, group |-> "Lymphoma"] >>

\* a chain of when/then pairs ending in otherwise("Other"): the first pair
\* whose condition is true gives the value
RECURSIVE WhenChain(_, _)
WhenChain(rules, cell) ==
    IF rules = <<>> THEN Label("Other")
    ELSE WhenThenOtherwise(StartsWith(cell, Head(rules).prefix),
                           Label(Head(rules).group),
                           WhenChain(Tail(rules), cell))

create_site_groups_expr(cell) == WhenChain(SiteRules, cell)

create_histology_groups_expr(cell) == WhenChain(HistologyRules, cell)

\* the name a join would give a column that is there already
Beside(c) ==
    IF c = "AGE_AS_INT" THEN "AGE_AS_INT_right"
    ELSE IF c = "AGE_IS_90_PLUS" THEN "AGE_IS_90_PLUS_right"
    ELSE IF c = "SITE_GROUP" THEN "SITE_GROUP_right"
    ELSE "HISTOLOGY_GROUP_right"

\* a variant that puts a derived column beside the one of that name the
\* table has already, instead of replacing it
apply_ncdb_specific_transformations_beside(t) ==
    LET cols == DOMAIN t.schema
        age  == IF "AGE" \in cols
                THEN {"AGE_AS_INT", "AGE_IS_90_PLUS"} ELSE {}
        site == IF "PRIMARY_SITE" \in cols THEN {"SITE_GROUP"} ELSE {}
        hist == IF "HISTOLOGY" \in cols THEN {"HISTOLOGY_GROUP"} ELSE {}
        new  == age \cup site \cup hist
        added == {IF c \in cols THEN Beside(c) ELSE c : c \in new}
        Source(a) == CHOOSE c \in new : a \in {c, Beside(c)}
        NewType(c) ==
            IF c = "AGE_AS_INT" THEN Int64
            ELSE IF c = "AGE_IS_90_PLUS" THEN Boolean
            ELSE Utf8
        NewCell(row, c) ==
            IF c = "AGE_AS_INT" THEN AgeAsInt(row["AGE"])
            ELSE IF c = "AGE_IS_90_PLUS" THEN AgeIs90Plus(row["AGE"])
            ELSE IF c = "SITE_GROUP"
            THEN create_site_groups_expr(row["PRIMARY_SITE"])
            ELSE create_histology_groups_expr(row["HISTOLOGY"])
    IN  [schema |-> [c \in cols \cup added |->
                        IF c \in added THEN NewType(Source(c))
                        ELSE t.schema[c]],
         rows   |-> [i \in 1..Len(t.rows) |->
                        [c \in cols \cup added |->
                            IF c \in added THEN NewCell(t.rows[i], Source(c))
                            ELSE t.rows[i][c]]]]

\* apply_ncdb_specific_transformations: the columns with_columns adds (or
\* replaces), every expression reading the table as it was
apply_ncdb_specific_transformations(t) ==
    LET cols == DOMAIN t.schema
        age  == IF "AGE" \in cols
                THEN {"AGE_AS_INT", "AGE_IS_90_PLUS"} ELSE {}
        site == IF "PRIMARY_SITE" \in cols THEN {"SITE_GROUP"} ELSE {}
        hist == IF "HISTOLOGY" \in cols THEN {"HISTOLOGY_GROUP"} ELSE {}
        new  == age \cup site \cup hist
        NewType(c) ==
            IF c = "AGE_AS_INT" THEN Int64
            ELSE IF c = "AGE_IS_90_PLUS" THEN Boolean
            ELSE Utf8
        NewCell(row, c) ==
            IF c = "AGE_AS_INT" THEN AgeAsInt(row["AGE"])
            ELSE IF c = "AGE_IS_90_PLUS" THEN AgeIs90Plus(row["AGE"])
            ELSE IF c = "SITE_GROUP"
            THEN create_site_groups_expr(row["PRIMARY_SITE"])
            ELSE create_histology_groups_expr(row["HISTOLOGY"])
    IN  [schema |-> [c \in cols \cup new |->
                        IF c \in new THEN NewType(c) ELSE t.schema[c]],
         rows   |-> [i \in 1..Len(t.rows) |->
                        [c \in cols \cup new |->
                            IF c \in new THEN NewCell(t.rows[i], c)
                            ELSE t.rows[i][c]]]]

\* apply_transformations, line 42, on one table
ApplyNcdbTransformations ==
    /\ pc = "derive"
    /\ table' = apply_ncdb_specific_transformations(table)
    /\ pc' = "derived"
    /\ UNCHANGED <<decode_vars, schema_vars, later_vars>>

NextTransform == ApplyNcdbTransformations

-----------------------------------------------------------------------------
(* Inputs of build_dataset *)

Line(text, len, nl) == [text |-> text, len |-> len, nl |-> nl]

\* the contents of a line: its leading characters and its length
DecodeContents ==
    { <<<<"a", "b">>, NCDB_RECORD_LENGTH>>,
      <<<<" ", "a">>, NCDB_RECORD_LENGTH>>,
      <<<<>>, NCDB_RECORD_LENGTH>>,
      <<<<"a">>, NCDB_RECORD_LENGTH - 1>>,
      <<<<"a", "b">>, NCDB_RECORD_LENGTH + 1>>,
      <<<<>>, 0>> }

LayoutContents ==
    { <<<<"a", "b">>, NCDB_RECORD_LENGTH>>,
      <<<<" ", "a">>, NCDB_RECORD_LENGTH>>,
      <<<<"a", " ", "b">>, NCDB_RECORD_LENGTH>> }

SeqsUpTo(S, n) == UNION {[1..k -> S] : k \in 0..n}

\* a file read in text mode: every line ends with a newline, except that the
\* last one may lack it (and is then not empty)
FileOf(contents, final_newline) ==
    [i \in 1..Len(contents) |->
        Line(contents[i][1], contents[i][2],
             (i < Len(contents)) \/ final_newline)]

FilesOver(S, n) ==
    { FileOf(c, f) : c \in SeqsUpTo(S, n), f \in BOOLEAN }

WellFormedFile(file) ==
    \A i \in 1..Len(file) : file[i].nl \/ file[i].len > 0

FieldNames == {"AGE", "SEX"}

\* rows of a columns.csv: any integers may stand in start and end
OverridePositions ==
    { <<1, 1>>, <<1, 2>>, <<2, 2>>, <<2, 3>>, <<0, 2>>, <<2, 1>>,
      <<2, NCDB_RECORD_LENGTH + 1>> }

OverrideRows ==
    { [name |-> n, start |-> p[1], end |-> p[2]] :
        n \in FieldNames, p \in OverridePositions }

\* the positions a SAS layout declares: 1-based, inclusive, inside the record
LayoutEntries ==
    { [name |-> "AGE", start |-> 1, end |-> 2],
      [name |-> "SEX", start |-> 3, end |-> 3],
      [name |-> "SEX", start |-> NCDB_RECORD_LENGTH - 1,
                       end |-> NCDB_RECORD_LENGTH] }

\* a layout declares each field once
SasLayouts ==
    { l \in SeqsUpTo(LayoutEntries, MaxFields) :
        \A i, j \in 1..Len(l) : i # j => l[i].name # l[j].name }

DefaultLayout ==
    << [name |-> "AGE", start |-> 1, end |-> 2],
       [name |-> "SEX", start |-> 3, end |-> 3] >>

DefaultBatchSize == 10000

\* the state of a build_dataset call before its first step
DecodeStart ==
    /\ column_defs = <<>>
    /\ pos = 0
    /\ batch_data = <<>>
    /\ batches = <<>>
    /\ df = <<>>

\* the state of a determine_global_schema call before its first step
SchemaStart ==
    /\ file_idx = 0
    /\ all_columns = {}
    /\ column_types = <<>>
    /\ optimal_schema = <<>>

NoDecode ==
    /\ input_file = <<>>
    /\ columns_file = NoFile
    /\ sas_layout = <<>>
    /\ batch_size = DefaultBatchSize
    /\ DecodeStart

NoSchema == parquet_files = <<>> /\ SchemaStart

NoTable == table = [schema |-> <<>>, rows |-> <<>>]

\* no query is open
NoQuery ==
    /\ dataset = [columns |-> <<>>, dtypes |-> <<>>, rows |-> <<>>]
    /\ _lf = <<>>
    /\ returned = [call |-> "none", raised |-> "none", count |-> 0,
                   columns |-> <<>>, rows |-> <<>>,
                   query |-> [is |-> "none", plan |-> <<>>], collects |-> 0]

\* the arguments of a build: whether data_dir exists, the files in it, the
\* memory_limit (None as the empty text) and the three switches
Arguments(exists, files, memory_limit, transforms, verify, dictionary) ==
    [data_dir_exists |-> exists, files |-> files,
     memory_limit |-> memory_limit, apply_transforms |-> transforms,
     verify_files |-> verify, generate_dictionary |-> dictionary]

\* no build has been started
NoBuild ==
    /\ build_args = [data_dir_exists |-> FALSE, files |-> "none",
                     memory_limit |-> <<>>, apply_transforms |-> FALSE,
                     verify_files |-> FALSE, generate_dictionary |-> FALSE]
    /\ fs = {}
    /\ handlers = {}
    /\ log = {}
    /\ outcomes = <<>>

\* no parquet file is being transformed
NoApply == originals = <<>> /\ outputs = <<>> /\ runs = 0

\* a path of the file system: the directory and the characters of the name
FilePath(parent, name) == [parent |-> parent, name |-> name]

\* the layout declares no value labels, and no file is named
NoLabels == value_formats = <<>> /\ input_path = FilePath("", <<>>)

\* a path: the directory, and the name as its stem and its suffix
Path(parent, stem, suffix) ==
    [parent |-> parent, stem |-> stem, suffix |-> suffix]

\* an output_file that was not given
NoPath == Path("", "", "")

\* no data dictionary is being generated
NoDictionary ==
    /\ dict_args = [parquet_path |-> "", parquet_parent |-> "",
                    is_file |-> FALSE, output_file |-> NoPath,
                    formats |-> <<>>]
    /\ fmt_idx = 0
    /\ output_paths = <<>>
    /\ dict_result = [raised |-> "none", path |-> NoPath]

NoLater == NoQuery /\ NoBuild /\ NoApply /\ NoLabels /\ NoDictionary

InitRest ==
    /\ pc = "load"
    /\ DecodeStart
    /\ NoSchema
    /\ NoTable
    /\ NoLater

\* many files and batch sizes, two sources of field definitions
InitDecode ==
    /\ input_file \in {f \in FilesOver(DecodeContents, MaxLines) :
                          WellFormedFile(f)}
    /\ batch_size \in 1..MaxBatch
    /\ sas_layout = DefaultLayout
    /\ columns_file \in
          {NoFile, ColumnsFile(<<[name |-> "SEX", start |-> 1, end |-> 2]>>)}
    /\ InitRest

\* many layouts and column files, one-line files
InitLayout ==
    /\ input_file \in {f \in FilesOver(LayoutContents, 1) :
                          Len(f) = 1 /\ WellFormedFile(f)}
    /\ batch_size = DefaultBatchSize
    /\ \/ /\ columns_file = NoFile
          /\ sas_layout \in SasLayouts
       \/ /\ columns_file \in
               {ColumnsFile(r) : r \in SeqsUpTo(OverrideRows, MaxFields)}
          /\ sas_layout = DefaultLayout
    /\ InitRest

SpecDecode == InitDecode /\ [][NextDecode]_vars

SpecLayout == InitLayout /\ [][NextDecode]_vars

-----------------------------------------------------------------------------
(* Inputs of determine_global_schema *)

MaxFiles == 3

\* the schemas a parquet file may have: each column absent or of some type
Absent == "absent"

FileSchemas ==
    { [col \in {c \in {"YEAR_OF_DIAGNOSIS", "TUMOR_SIZE"} : pick[c] # Absent}
          |-> pick[col]] :
        pick \in [YEAR_OF_DIAGNOSIS : {Absent, Utf8, Int64},
                  TUMOR_SIZE : {Absent, Utf8, Float64, Int64, Boolean}] }

InitSchema ==
    /\ pc = "scan"
    /\ parquet_files \in SeqsUpTo(FileSchemas, MaxFiles)
    /\ SchemaStart
    /\ NoDecode
    /\ NoTable
    /\ NoLater

SpecSchema == InitSchema /\ [][NextSchema]_vars

-----------------------------------------------------------------------------
(* Inputs of apply_ncdb_specific_transformations *)

MaxRows == 2

AgeCells ==
    << StrV(<<"9", "0", "+">>), StrV(<<"6", "7">>), StrV(<<>>),
       StrV(<<"a", "b">>), Null, StrV(<<"9", "0">>),
       StrV(<<"0", "6", "7">>), StrV(<<"9", "0", "+", " ">>),
       StrV(<<"6", ".", "7">>), StrV(<<"7">>) >>

SiteCells ==
    << StrV(<<"C", "5", "0", "9">>), StrV(<<"C", "7", "2", "9">>),
       StrV(<<"C", "9", "9", "9">>), StrV(<<"C", "7", "1", "0">>),
       Null, StrV(<<"C", "5">>), StrV(<<"C", "7", "8">>),
       StrV(<<"C", "4", "4", "1">>), StrV(<<>>),
       StrV(<<" ", "C", "5", "0">>) >>

HistologyCells ==
    << StrV(<<"8", "1", "4", "0">>), StrV(<<"9", "6", "7", "0">>),
       StrV(<<"8", "0", "0", "0">>), Null, StrV(<<"8", "7", "2">>),
       StrV(<<"8", "0", "5", "1">>), StrV(<<"9", "5", "9", "0">>),
       StrV(<<>>), StrV(<<"8", "1">>), StrV(<<"1", "8", "1", "4">>) >>

\* the rows a table is built from: one value per coded column
RowProfiles ==
    { [AGE |-> AgeCells[i], PRIMARY_SITE |-> SiteCells[i],
       HISTOLOGY |-> HistologyCells[i]] : i \in 1..Len(AgeCells) }

CodedColumns == {"AGE", "PRIMARY_SITE", "HISTOLOGY"}

\* a table of string columns holding the rows rs, restricted to cols
TableOf(cols, rs) ==
    [schema |-> [c \in cols |-> Utf8],
     rows   |-> [i \in 1..Len(rs) |-> [c \in cols |-> rs[i][c]]]]

InitTransform ==
    /\ pc = "derive"
    /\ table \in { TableOf(cols, rs) :
                     cols \in (SUBSET CodedColumns) \ {{}},
                     rs \in SeqsUpTo(RowProfiles, MaxRows) }
    /\ NoDecode
    /\ NoSchema
    /\ NoLater

SpecTransform == InitTransform /\ [][NextTransform]_vars

-----------------------------------------------------------------------------
(* Properties of the decoder *)

\* the length of the line without its newline is the record length
HasRecordLength(line) == line.len = NCDB_RECORD_LENGTH

\* every character of the line is whitespace (the padding is blank)
IsBlank(line) == \A i \in 1..Len(line.text) : line.text[i] \in Whitespace

IsRecordLine(line) == HasRecordLength(line) /\ ~IsBlank(line)

RowsOfLines(ls) == [i \in 1..Len(ls) |-> _parse_line(ls[i], column_defs)]

C3_BatchBoundariesCarryNoMeaning ==
    /\ pc = "read" =>
          Concat(batches) \o batch_data =
              RowsOfLines(SelectSeq(SubSeq(input_file, 1, pos), IsRecordLine))
    /\ pc = "decoded" =>
          /\ df = Concat(batches)
          /\ df = RowsOfLines(SelectSeq(input_file, IsRecordLine))
          /\ \A b \in 1..Len(batches) :
                /\ Len(batches[b]) >= 1
                /\ b < Len(batches) => Len(batches[b]) = batch_size

\* a full batch followed by a final partial one
C3_Witness ==
    /\ pc = "decoded"
    /\ Len(batches) = 2
    /\ batch_size = 2
    /\ Len(batches[1]) = 2
    /\ Len(batches[2]) = 1

\* value is line[start:end] without its surrounding whitespace: it starts
\* and ends with a non-blank character, occurs inside the window, and
\* everything else in the window is whitespace
IsTrimmedWindow(line, start, end, value) ==
    LET n  == LineLen(line)
        lo == SliceIndex(start, n)
        hi == SliceIndex(end, n)
        m  == Len(value)
    IN  IF m = 0
        THEN \A i \in lo..(hi - 1) : LineChar(line, i) \in Whitespace
        ELSE /\ value[1] \notin Whitespace
             /\ value[m] \notin Whitespace
             /\ \E a \in lo..(hi - m) :
                   /\ \A k \in 1..m : LineChar(line, a + k - 1) = value[k]
                   /\ \A i \in lo..(a - 1) : LineChar(line, i) \in Whitespace
                   /\ \A i \in (a + m)..(hi - 1) :
                         LineChar(line, i) \in Whitespace

RecordLines == SelectSeq(input_file, IsRecordLine)

DeclaredNames == {column_defs[k].name : k \in 1..Len(column_defs)}

LastDefinitionOf(name) ==
    column_defs[Max({k \in 1..Len(column_defs) : column_defs[k].name = name})]

\* a definition that respects the FieldDefinition bounds
IsInsideRecord(col_def) ==
    /\ 0 <= col_def.start
    /\ col_def.start < col_def.end
    /\ col_def.end <= NCDB_RECORD_LENGTH

\* C2 as stated: for every list of (well-formed) field definitions the
\* Record has one value per definition, each the trimmed substring of its
\* own definition.
C2_OneValuePerDefinition ==
    (pc = "decoded"
       /\ \A k \in 1..Len(column_defs) : IsInsideRecord(column_defs[k])) =>
        \A j \in 1..Len(df) :
            /\ Cardinality(DOMAIN df[j]) = Len(column_defs)
            /\ \A k \in 1..Len(column_defs) :
                  IsTrimmedWindow(RecordLines[j], column_defs[k].start,
                                  column_defs[k].end,
                                  df[j][column_defs[k].name])

\* C2 (amended): the Record has exactly one value per declared field name,
\* and each value is the substring line[start:end] of the last definition
\* bearing that name, with surrounding whitespace removed.
C2_OneValuePerFieldName ==
    pc = "decoded" =>
        \A j \in 1..Len(df) :
            /\ DOMAIN df[j] = DeclaredNames
            /\ \A name \in DeclaredNames :
                  IsTrimmedWindow(RecordLines[j],
                                  LastDefinitionOf(name).start,
                                  LastDefinitionOf(name).end,
                                  df[j][name])

\* two fields decoded from one line, one of them with whitespace trimmed
C2_Witness ==
    /\ pc = "decoded"
    /\ Len(df) = 1
    /\ Len(column_defs) = 2
    /\ Cardinality(DeclaredNames) = 2
    /\ \E k \in 1..2 :
          /\ df[1][column_defs[k].name] # <<>>
          /\ df[1][column_defs[k].name] #
                PySlice(RecordLines[1], column_defs[k].start,
                        column_defs[k].end)

\* C4 as stated: every field definition used for decoding lies inside the
\* record: 0 <= start < end <= 1032.
C4_DefinitionsInsideRecord ==
    pc \in {"read", "decoded"} =>
        \A k \in 1..Len(column_defs) :
            /\ 0 <= column_defs[k].start
            /\ column_defs[k].start < column_defs[k].end
            /\ column_defs[k].end <= NCDB_RECORD_LENGTH

\* the characters at the 1-based columns first..last of a line
ColumnsOf(line, first, last) ==
    [k \in 1..(last - first + 1) |-> LineChar(line, first + k - 2)]

IsValidOverrideRow(row) ==
    1 <= row.start /\ row.start <= row.end /\ row.end <= NCDB_RECORD_LENGTH

\* C5: an override row (start, end), 1-based and inclusive, becomes the
\* definition [start-1, end) of width end-start+1; with a columns file these
\* definitions replace the layout's, and a decoded value holds exactly the
\* characters at columns start..end (trimmed).
C5_OverrideConvertedLikeLayout ==
    (columns_file.supplied /\ pc \in {"read", "decoded"}) =>
        LET rows == columns_file.rows
        IN  /\ Len(column_defs) = Len(rows)
            /\ \A i \in 1..Len(rows) :
                  /\ column_defs[i].name = rows[i].name
                  /\ column_defs[i].start = rows[i].start - 1
                  /\ column_defs[i].end = rows[i].end
                  /\ column_defs[i].width = rows[i].end - rows[i].start + 1
            /\ pc = "decoded" =>
                  \A j \in 1..Len(df) : \A i \in 1..Len(rows) :
                      (/\ IsValidOverrideRow(rows[i])
                       /\ \A i2 \in (i + 1)..Len(rows) :
                             rows[i2].name # rows[i].name)
                      => df[j][rows[i].name] =
                            Strip(ColumnsOf(RecordLines[j], rows[i].start,
                                            rows[i].end))

\* a columns file whose row starts at column 2 decodes a value, and the
\* layout's own definitions differ
C5_Witness ==
    /\ pc = "decoded"
    /\ columns_file.supplied
    /\ column_defs # parse_column_positions(sas_layout)
    /\ Len(df) = 1
    /\ \E i \in 1..Len(columns_file.rows) :
          /\ columns_file.rows[i].start = 2
          /\ IsValidOverrideRow(columns_file.rows[i])
          /\ df[1][columns_file.rows[i].name] # <<>>

-----------------------------------------------------------------------------
(* Properties of the schema reconciler *)

\* the types the files that contain col report for it
ObservedTypes(col) ==
    { parquet_files[i][col] :
        i \in {k \in 1..Len(parquet_files) : col \in DOMAIN parquet_files[k]} }

FilesWith(col) ==
    {k \in 1..Len(parquet_files) : col \in DOMAIN parquet_files[k]}

NumericTypes == {Float64, Int64}

\* C6 as stated: a column whose files all report one type resolves to that
\* type; a column seen as string and as numeric resolves to string.
C6_ConsistentTypeKept ==
    pc = "schema_done" =>
        \A col \in all_columns :
            /\ \A t \in ObservedTypes(col) :
                  ObservedTypes(col) = {t} => optimal_schema[col] = t
            /\ (Utf8 \in ObservedTypes(col)
                  /\ ObservedTypes(col) \cap NumericTypes # {})
                  => optimal_schema[col] = Utf8

\* C6 (amended): a column outside the never-numeric set whose files all
\* report one type resolves to exactly that type; any column seen as string
\* in one file and as numeric in another resolves to string.
C6_ConsistentTypeKeptUnlessNeverNumeric ==
    pc = "schema_done" =>
        /\ DOMAIN optimal_schema = all_columns
        /\ \A col \in all_columns :
            /\ \A t \in ObservedTypes(col) :
                  (ObservedTypes(col) = {t} /\ col \notin NEVER_NUMERIC)
                      => optimal_schema[col] = t
            /\ (Utf8 \in ObservedTypes(col)
                  /\ ObservedTypes(col) \cap NumericTypes # {})
                  => optimal_schema[col] = Utf8

\* one column agreed on by several files, another seen as string and number
C6_Witness ==
    /\ pc = "schema_done"
    /\ Len(parquet_files) = 3
    /\ Cardinality(FilesWith("TUMOR_SIZE")) >= 2
    /\ ObservedTypes("TUMOR_SIZE") = {Float64}
    /\ optimal_schema["TUMOR_SIZE"] = Float64
    /\ ObservedTypes("YEAR_OF_DIAGNOSIS") = {Utf8, Int64}

\* the precedence string > floating-point > integer over a set of types
MostGeneral(S) ==
    IF Utf8 \in S THEN Utf8
    ELSE IF Float64 \in S THEN Float64
    ELSE Int64

\* C7: when the files disagree on a column, the resolved type is string if
\* any file saw string, else float if any saw float, else integer; it is a
\* function of the set of observed types only.
C7_PrecedenceOnDisagreement ==
    /\ pc = "scan" =>
          \A col \in DOMAIN column_types :
              LET seen == {column_types[col][i] :
                              i \in 1..Len(column_types[col])}
              IN  Cardinality(seen) > 1 =>
                      resolve_column_type(column_types[col])
                          = MostGeneral(seen)
    /\ pc = "schema_done" =>
          \A col \in all_columns \ NEVER_NUMERIC :
              Cardinality(ObservedTypes(col)) > 1 =>
                  optimal_schema[col] = MostGeneral(ObservedTypes(col))

\* float and integer disagree, the integer file first
C7_Witness ==
    /\ pc = "schema_done"
    /\ "TUMOR_SIZE" \in all_columns
    /\ Len(column_types["TUMOR_SIZE"]) = 3
    /\ column_types["TUMOR_SIZE"][1] = Int64
    /\ ObservedTypes("TUMOR_SIZE") = {Int64, Float64}
    /\ optimal_schema["TUMOR_SIZE"] = Float64

\* C8: a never-numeric column that appears in any file resolves to string,
\* also when every file inferred it as integer.
C8_NeverNumericIsString ==
    pc = "schema_done" =>
        \A col \in NEVER_NUMERIC :
            (\E k \in 1..Len(parquet_files) : col \in DOMAIN parquet_files[k])
                => (col \in DOMAIN optimal_schema
                    /\ optimal_schema[col] = Utf8)

\* every file inferred the diagnosis year as integer
C8_Witness ==
    /\ pc = "schema_done"
    /\ Cardinality(FilesWith("YEAR_OF_DIAGNOSIS")) >= 2
    /\ ObservedTypes("YEAR_OF_DIAGNOSIS") = {Int64}
    /\ optimal_schema["YEAR_OF_DIAGNOSIS"] = Utf8

-----------------------------------------------------------------------------
(* Properties of the domain derivations *)

\* the decimal digits of a natural number
RECURSIVE FormatNat(_)
FormatNat(n) ==
    IF n < 10 THEN <<Digits[n + 1]>>
    ELSE FormatNat(n \div 10) \o <<Digits[(n % 10) + 1]>>

RECURSIVE DropLeadingZeros(_)
DropLeadingZeros(chars) ==
    IF Len(chars) > 1 /\ Head(chars) = "0" THEN DropLeadingZeros(Tail(chars))
    ELSE chars

\* the cell is a non-empty string of decimal digits
IsNumeral(cell) ==
    /\ ~IsNull(cell)
    /\ cell.str # <<>>
    /\ \A i \in 1..Len(cell.str) :
          cell.str[i] \in {"0", "1", "2", "3", "4", "5", "6", "7", "8", "9"}

\* C9: on a table with an AGE column, every row with AGE = "90+" has
\* AGE_AS_INT = 90 and AGE_IS_90_PLUS = true; every other row has
\* AGE_IS_90_PLUS = false (never null) and AGE_AS_INT the integer AGE
\* denotes, or null when AGE is empty, null or not a number.
C9_AgeDerivation ==
    (pc = "derived" /\ "AGE" \in DOMAIN table.schema) =>
        /\ {"AGE_AS_INT", "AGE_IS_90_PLUS"} \subseteq DOMAIN table.schema
        /\ \A i \in 1..Len(table.rows) :
              LET row == table.rows[i]
              IN  IF row["AGE"] = StrV(<<"9", "0", "+">>)
                  THEN /\ row["AGE_AS_INT"] = IntV(90)
                       /\ row["AGE_IS_90_PLUS"] = BoolV(TRUE)
                  ELSE /\ row["AGE_IS_90_PLUS"] = BoolV(FALSE)
                       /\ IF IsNumeral(row["AGE"])
                          THEN /\ "int" \in DOMAIN row["AGE_AS_INT"]
                               /\ FormatNat(row["AGE_AS_INT"].int)
                                     = DropLeadingZeros(row["AGE"].str)
                          ELSE row["AGE_AS_INT"] = Null

\* a table holding "90+", a number and a null age
C9_Witness ==
    /\ pc = "derived"
    /\ "AGE" \in DOMAIN table.schema
    /\ Len(table.rows) = 2
    /\ table.rows[1]["AGE"] = StrV(<<"9", "0", "+">>)
    /\ table.rows[1]["AGE_AS_INT"] = IntV(90)
    /\ table.rows[2]["AGE"] = Null
    /\ table.rows[2]["AGE_IS_90_PLUS"] = BoolV(FALSE)

\* the code starts with the three characters a, b, c
HasPrefix3(cell, a, b, c) ==
    /\ ~IsNull(cell)
    /\ Len(cell.str) >= 3
    /\ SubSeq(cell.str, 1, 3) = <<a, b, c>>

MatchingRules(cell) ==
    {k \in 1..Len(SiteRules) :
        /\ ~IsNull(cell)
        /\ Len(cell.str) >= Len(SiteRules[k].prefix)
        /\ SubSeq(cell.str, 1, Len(SiteRules[k].prefix))
              = SiteRules[k].prefix}

\* C10: SITE_GROUP is the group of the first rule whose prefix starts
\* PRIMARY_SITE: C50 gives "Breast", C71 and C72 give "Brain/CNS", a code
\* matching no rule gives "Other"; every row has exactly one group.
C10_SiteGroupFirstMatch ==
    (pc = "derived" /\ "PRIMARY_SITE" \in DOMAIN table.schema) =>
        /\ "SITE_GROUP" \in DOMAIN table.schema
        /\ \A i \in 1..Len(table.rows) :
              LET site  == table.rows[i]["PRIMARY_SITE"]
                  group == table.rows[i]["SITE_GROUP"]
              IN  /\ HasPrefix3(site, "C", "5", "0")
                        => group = Label("Breast")
                  /\ (HasPrefix3(site, "C", "7", "1")
                        \/ HasPrefix3(site, "C", "7", "2"))
                        => group = Label("Brain/CNS")
                  /\ MatchingRules(site) = {} => group = Label("Other")
                  /\ MatchingRules(site) # {} =>
                        group = Label(SiteRules[Min(MatchingRules(site))].group)
                  /\ group \in {Label(SiteRules[k].group) :
                                   k \in 1..Len(SiteRules)}
                                \cup {Label("Other")}

\* the codes C729 and C999 in one table
C10_Witness ==
    /\ pc = "derived"
    /\ "PRIMARY_SITE" \in DOMAIN table.schema
    /\ Len(table.rows) = 2
    /\ table.rows[1]["PRIMARY_SITE"] = StrV(<<"C", "7", "2", "9">>)
    /\ table.rows[1]["SITE_GROUP"] = Label("Brain/CNS")
    /\ table.rows[2]["PRIMARY_SITE"] = StrV(<<"C", "9", "9", "9">>)
    /\ table.rows[2]["SITE_GROUP"] = Label("Other")

-----------------------------------------------------------------------------
(* constants.py: the column names the query facade uses *)

YEAR_COLUMN == "YEAR_OF_DIAGNOSIS"
PRIMARY_SITE_COLUMN == "PRIMARY_SITE"
HISTOLOGY_COLUMN == "HISTOLOGY"
VITAL_STATUS_COLUMN == "PUF_VITAL_STATUS"

DEMOGRAPHIC_COLUMNS ==
    << "PUF_CASE_ID", "AGE", "SEX", "RACE", "SPANISH_HISPANIC_ORIGIN",
       "INSURANCE_STATUS", "CDCC_TOTAL_BEST", "MED_INC_QUAR_00",
       "NO_HSD_QUAR_00", "UR_CD_03", "MED_INC_QUAR_12", "NO_HSD_QUAR_12",
       "UR_CD_13", "MED_INC_QUAR_2016", "NO_HSD_QUAR_2016",
       "MED_INC_QUAR_2020", "NO_HSD_QUAR_2020", "CROWFLY" >>

OUTCOME_COLUMNS ==
    << "PUF_VITAL_STATUS", "DX_LASTCONTACT_DEATH_MONTHS",
       "PUF_30_DAY_MORT_CD", "PUF_90_DAY_MORT_CD", "READM_HOSP_30_DAYS",
       "PALLIATIVE_CARE" >>

-----------------------------------------------------------------------------
(* query.py: NCDBQuery *)

\* A frame is [error, columns, dtypes, rows]: the columns in order, the type
\* of each, and one function column -> cell per row; `error` names the
\* exception the evaluation ended with, or "none".
Frame(columns, dtypes, rows) ==
    [error |-> "none", columns |-> columns, dtypes |-> dtypes, rows |-> rows]

Failed(error) ==
    [error |-> error, columns |-> <<>>, dtypes |-> <<>>, rows |-> <<>>]

Names(columns) == {columns[i] : i \in 1..Len(columns)}

\* the steps of a lazy plan
FilterIsIn(col, values) ==
    [op |-> "is_in", col |-> col, values |-> values, cols |-> <<>>]
FilterIsNotNull(col) ==
    [op |-> "is_not_null", col |-> col, values |-> <<>>, cols |-> <<>>]
Select(cols) ==
    [op |-> "select", col |-> "", values |-> <<>>, cols |-> cols]

\* the polars type of a Python value in a list literal
DtypeOfValue(v) == IF "int" \in DOMAIN v THEN Int64 ELSE Utf8

\* str(code) of an int or a str
PyStr(v) == IF "int" \in DOMAIN v THEN StrV(FormatNat(v.int)) ELSE v

\* pl.col(c).is_in(values) on one cell: null for a null cell
IsIn(cell, values) ==
    IF IsNull(cell) THEN Null
    ELSE BoolV(\E k \in 1..Len(values) : values[k] = cell)

\* is_in between a column and a list of another type is refused by polars
IsInTypeError(dtype, values) ==
    \E k \in 1..Len(values) : DtypeOfValue(values[k]) # dtype

\* a step whose columns the frame has
ApplyResolved(f, step) ==
    IF step.op = "select"
    THEN \* a projection on no column has no rows either
         Frame(step.cols,
               [c \in Names(step.cols) |-> f.dtypes[c]],
               IF step.cols = <<>> THEN <<>>
               ELSE [i \in 1..Len(f.rows) |->
                        [c \in Names(step.cols) |-> f.rows[i][c]]])
    ELSE IF step.op = "is_in"
    THEN IF IsInTypeError(f.dtypes[step.col], step.values)
         THEN Failed("InvalidOperationError")
         ELSE LET Keep(row) == IsIn(row[step.col], step.values) = BoolV(TRUE)
              IN  Frame(f.columns, f.dtypes, SelectSeq(f.rows, Keep))
    ELSE LET Keep(row) == ~IsNull(row[step.col])
         IN  Frame(f.columns, f.dtypes, SelectSeq(f.rows, Keep))

\* the step names a column the frame lacks
ColumnNotFound(f, step) ==
    step.op # "select" /\ step.col \notin Names(f.columns)

\* a variant in which a filter on a column the frame lacks keeps every row
ApplyStep_missing_column_ignored(f, step) ==
    IF f.error # "none" \/ ColumnNotFound(f, step) THEN f
    ELSE ApplyResolved(f, step)

\* one step of a plan applied to a frame
ApplyStep(f, step) ==
    IF f.error # "none" THEN f
    ELSE IF ColumnNotFound(f, step) THEN Failed("ColumnNotFoundError")
    ELSE ApplyResolved(f, step)

\* LazyFrame.collect(): the plan evaluated on the data it scans
RECURSIVE Collect(_, _)
Collect(data, plan) ==
    IF plan = <<>> THEN Frame(data.columns, data.dtypes, data.rows)
    ELSE ApplyStep(Collect(data, SubSeq(plan, 1, Len(plan) - 1)),
                   plan[Len(plan)])

\* the columns a plan yields, or the error its column resolution ends with
RECURSIVE PlanColumns(_, _)
PlanColumns(data, plan) ==
    IF plan = <<>> THEN [error |-> "none", columns |-> data.columns]
    ELSE LET before == PlanColumns(data, SubSeq(plan, 1, Len(plan) - 1))
             step == plan[Len(plan)]
         IN  IF before.error # "none" THEN before
             ELSE IF step.op = "select"
             THEN [error |-> "none", columns |-> step.cols]
             ELSE IF step.col \notin Names(before.columns)
             THEN [error |-> "ColumnNotFoundError", columns |-> <<>>]
             ELSE before

\* LazyFrame.collect_schema(): the outcomes of resolving the plan without
\* running it.  Whether an is_in between unlike types is refused already
\* here or only by collect() is left open.
collect_schema(data, plan) ==
    LET resolved == PlanColumns(data, plan)
        run == Collect(data, plan)
    IN  IF resolved.error # "none" \/ run.error = "none" THEN {resolved}
        ELSE {resolved, [error |-> run.error, columns |-> <<>>]}

\* an argument that is one value, or a list of values
Single(v) == [single |-> v]
List(vs) == [list |-> vs]

\* `if isinstance(x, int): x = [x]` and its like
AsList(arg) == IF "single" \in DOMAIN arg THEN <<arg.single>> ELSE arg.list

\* what a call gives back when it gives back a query: the receiver itself
\* (`return self`), or a new NCDBQuery with a plan of its own
NotAQuery == [is |-> "none", plan |-> <<>>]
Self == [is |-> "self", plan |-> <<>>]
NewQuery(plan) == [is |-> "new", plan |-> plan]

\* the outcome of a call: the exception raised or "none", the number, the
\* list of names, the rows of the DataFrame or the query it returned, and
\* `collects`, the number of times the call ran LazyFrame.collect()
Returned(call, raised, count, columns) ==
    [call |-> call, raised |-> raised, count |-> count, columns |-> columns,
     rows |-> <<>>, query |-> NotAQuery, collects |-> 0]

\* `return self` at the end of a method that did not raise
ReturnedSelf(call) ==
    [Returned(call, "none", 0, <<>>) EXCEPT !.query = Self]

MaxSteps == 2

CanExtend == pc = "query" /\ Len(_lf) < MaxSteps

\* lines 77-90
filter_by_year(years) ==
    /\ CanExtend
    /\ _lf' = Append(_lf, FilterIsIn(YEAR_COLUMN, AsList(years)))
    /\ returned' = ReturnedSelf("filter_by_year")

\* lines 92-105
filter_by_primary_site(sites) ==
    /\ CanExtend
    /\ _lf' = Append(_lf, FilterIsIn(PRIMARY_SITE_COLUMN, AsList(sites)))
    /\ returned' = ReturnedSelf("filter_by_primary_site")

\* lines 107-126
filter_by_histology(codes) ==
    /\ CanExtend
    /\ LET str_codes == [k \in 1..Len(AsList(codes)) |->
                            PyStr(AsList(codes)[k])]
       IN  _lf' = Append(_lf, FilterIsIn(HISTOLOGY_COLUMN, str_codes))
    /\ returned' = ReturnedSelf("filter_by_histology")

\* lines 128-135
drop_missing_vital_status ==
    /\ CanExtend
    /\ _lf' = Append(_lf, FilterIsNotNull(VITAL_STATUS_COLUMN))
    /\ returned' = ReturnedSelf("drop_missing_vital_status")

\* a variant that keeps the order of the data
AvailableColumns_in_data_order(canonical, columns) ==
    LET Wanted(c) == c \in Names(canonical) IN SelectSeq(columns, Wanted)

\* [col for col in canonical if col in self.columns]
AvailableColumns(canonical, columns) ==
    LET Present(c) == c \in Names(columns) IN SelectSeq(canonical, Present)

\* select_demographics and select_outcomes, lines 166-184
SelectCanonical(call, canonical) ==
    /\ CanExtend
    /\ \E schema \in collect_schema(dataset, _lf) :
          IF schema.error # "none"
          THEN /\ returned' = Returned(call, schema.error, 0, <<>>)
               /\ UNCHANGED _lf
          ELSE /\ _lf' = Append(_lf, Select(AvailableColumns(canonical,
                                                            schema.columns)))
               /\ returned' = ReturnedSelf(call)

select_demographics == SelectCanonical("select_demographics",
                                       DEMOGRAPHIC_COLUMNS)

select_outcomes == SelectCanonical("select_outcomes", OUTCOME_COLUMNS)

\* the columns property, lines 197-204
columns ==
    /\ pc = "query"
    /\ \E schema \in collect_schema(dataset, _lf) :
          returned' = Returned("columns", schema.error, 0, schema.columns)
    /\ UNCHANGED _lf

\* lines 206-214: the number of rows of the plan's result
count ==
    /\ pc = "query"
    /\ LET result == Collect(dataset, _lf)
       IN  returned' = [Returned("count", result.error,
                                 IF result.error = "none"
                                 THEN Len(result.rows) ELSE 0, <<>>)
                           EXCEPT !.collects = 1]
    /\ UNCHANGED _lf

\* a precedes or equals b in the order of strings, character by character
\* (the texts compared are strings of digits)
RECURSIVE TextLeq(_, _)
TextLeq(a, b) ==
    IF a = <<>> THEN TRUE
    ELSE IF b = <<>> THEN FALSE
    ELSE IF Head(a) = Head(b) THEN TextLeq(Tail(a), Tail(b))
    ELSE DigitValue(Head(a)) < DigitValue(Head(b))

\* pl.col(c).max() over the cells of a column: nulls are skipped, and the
\* maximum of no value is null
ColumnMax(cells) ==
    LET values == {cells[i] : i \in {j \in 1..Len(cells) : ~IsNull(cells[j])}}
        Leq(x, y) == IF "int" \in DOMAIN x THEN x.int <= y.int
                     ELSE TextLeq(x.str, y.str)
    IN  IF values = {} THEN Null
        ELSE CHOOSE m \in values : \A x \in values : Leq(x, m)

\* lines 137-164: three collects, then the plan is extended by a projection
\* on the columns that are not all null in the most recent year
filter_active_variables ==
    /\ CanExtend
    /\ LET result == Collect(dataset, _lf)
           raises == IF result.error # "none" THEN result.error
                     ELSE IF YEAR_COLUMN \notin Names(result.columns)
                     THEN "ColumnNotFoundError"
                     ELSE "none"
       IN  IF raises # "none"
           THEN /\ returned' = [Returned("filter_active_variables", raises,
                                         0, <<>>) EXCEPT !.collects = 1]
                /\ UNCHANGED _lf
           ELSE LET recent_year ==
                        ColumnMax([i \in 1..Len(result.rows) |->
                                      result.rows[i][YEAR_COLUMN]])
                    \* == None is null on every row, and filter drops them
                    IsRecent(row) == /\ ~IsNull(recent_year)
                                     /\ row[YEAR_COLUMN] = recent_year
                    recent_data == SelectSeq(result.rows, IsRecent)
                    total_rows == Len(recent_data)
                    null_counts(col) ==
                        Cardinality({i \in 1..total_rows :
                                        IsNull(recent_data[i][col])})
                    IsActive(col) == null_counts(col) < total_rows
                    active_columns == SelectSeq(result.columns, IsActive)
                IN  /\ _lf' = Append(_lf, Select(active_columns))
                    /\ returned' = [ReturnedSelf("filter_active_variables")
                                       EXCEPT !.collects = 3]

\* the elements of a sequence at the positions S, in order
Subsequence(seq, S) ==
    [k \in 1..Cardinality(S) |->
        seq[CHOOSE i \in S : Cardinality({j \in S : j <= i}) = k]]

\* lines 216-230: the plan is collected, and DataFrame.sample(n=n) draws n
\* rows without replacement; it refuses an n above the number of rows
sample(n) ==
    /\ pc = "query"
    /\ LET df_ == Collect(dataset, _lf)
       IN  IF df_.error # "none"
           THEN returned' = [Returned("sample", df_.error, 0, <<>>)
                                EXCEPT !.collects = 1]
           ELSE IF n > Len(df_.rows)
           THEN returned' = [Returned("sample", "ShapeError", 0, <<>>)
                                EXCEPT !.collects = 1]
           ELSE \E S \in {T \in SUBSET (1..Len(df_.rows)) :
                             Cardinality(T) = n} :
                   returned' = [Returned("sample", "none", 0, <<>>)
                                   EXCEPT !.rows = Subsequence(df_.rows, S),
                                          !.collects = 1]
    /\ UNCHANGED _lf

\* lines 249-266: a method the class does not define is the LazyFrame's.
\* `collect` returns the DataFrame; `filter` returns a LazyFrame, which the
\* wrapper puts in a new NCDBQuery, leaving the receiver as it was
__getattr__(name, step) ==
    /\ pc = "query"
    /\ IF name = "collect"
       THEN LET result == Collect(dataset, _lf)
            IN  returned' = [Returned(name, result.error, 0, <<>>)
                                EXCEPT !.rows = result.rows, !.collects = 1]
       ELSE returned' = [Returned(name, "none", 0, <<>>)
                            EXCEPT !.query = NewQuery(Append(_lf, step))]
    /\ UNCHANGED _lf

\* the sizes asked of sample: one row, and one row more than the data has
SampleSizes == {1, Len(dataset.rows) + 1}

\* q.collect() and q.filter(pl.col("PRIMARY_SITE").is_not_null())
DelegatedCalls ==
    { <<"collect", Select(<<>>)>>,
      <<"filter", FilterIsNotNull(PRIMARY_SITE_COLUMN)>> }

YearArguments ==
    { Single(IntV(2020)), List(<<IntV(2020), IntV(2021)>>),
      List(<<IntV(1999)>>) }

SiteArguments ==
    { List(<<StrV(<<"C", "5", "0", "9">>), StrV(<<"C", "6", "1", "9">>)>>) }

HistologyArguments ==
    { List(<<StrV(<<"8", "1", "4", "0">>), IntV(8500)>>) }

NextQuery ==
    /\ \/ \E years \in YearArguments : filter_by_year(years)
       \/ \E sites \in SiteArguments : filter_by_primary_site(sites)
       \/ \E codes \in HistologyArguments : filter_by_histology(codes)
       \/ drop_missing_vital_status
       \/ select_demographics
       \/ select_outcomes
       \/ columns
       \/ count
    /\ UNCHANGED <<pc, dataset, decode_vars, schema_vars, table, build_vars,
                   apply_vars, finish_vars, dict_vars>>

-----------------------------------------------------------------------------
(* Inputs of NCDBQuery *)

\* the order of the columns in the data: not the order of a canonical list
DataColumns ==
    << "SEX", "YEAR_OF_DIAGNOSIS", "AGE", "PRIMARY_SITE",
       "PUF_VITAL_STATUS", "HISTOLOGY" >>

\* six cases diagnosed 2018 to 2022, and a last one of unknown year
CaseYears == <<2018, 2019, 2020, 2021, 2022, 2020>>

NumCases == Len(CaseYears) + 1

CaseSites ==
    << <<"C", "5", "0", "9">>, <<"C", "6", "1", "9">>,
       <<"C", "5", "0", "9">>, <<"C", "3", "4", "1">>,
       <<"C", "6", "1", "9">>, <<"C", "5", "0", "9">> >>

CaseHistologies ==
    << <<"8", "1", "4", "0">>, <<"8", "5", "0", "0">>,
       <<"8", "0", "7", "0">>, <<"8", "1", "4", "0">>,
       <<"8", "5", "0", "0">>, <<"8", "1", "4", "0">> >>

\* the year as the file stores it: text, or the number
YearCell(year, dtype) ==
    IF dtype = Utf8 THEN StrV(FormatNat(year)) ELSE IntV(year)

CaseRow(i, year_dtype) ==
    [SEX |-> IntV(1 + (i % 2)),
     YEAR_OF_DIAGNOSIS |-> IF i = NumCases THEN Null
                           ELSE YearCell(CaseYears[i], year_dtype),
     AGE |-> IF i = NumCases THEN StrV(NinetyPlus) ELSE StrV(FormatNat(60 + i)),
     PRIMARY_SITE |-> IF i = NumCases THEN Null ELSE StrV(CaseSites[i]),
     PUF_VITAL_STATUS |-> IF i \in {2, NumCases} THEN Null ELSE IntV(i % 2),
     HISTOLOGY |-> IF i = NumCases THEN Null ELSE StrV(CaseHistologies[i])]

CaseDtypes(year_dtype) ==
    [SEX |-> Int64, YEAR_OF_DIAGNOSIS |-> year_dtype,
     AGE |-> Utf8, PRIMARY_SITE |-> Utf8, PUF_VITAL_STATUS |-> Int64,
     HISTOLOGY |-> Utf8]

\* the first n cases, with the columns cols in the order of the data
Dataset(cols, year_dtype, n) ==
    LET present == LET Kept(c) == c \in cols IN SelectSeq(DataColumns, Kept)
    IN  [columns |-> present,
         dtypes  |-> [c \in cols |-> CaseDtypes(year_dtype)[c]],
         rows    |-> [i \in 1..n |-> [c \in cols |->
                                         CaseRow(i, year_dtype)[c]]]]

NewReturn == Returned("none", "none", 0, <<>>)

InitQuery ==
    /\ pc = "query"
    /\ dataset \in { Dataset(cols, year_dtype, n) :
                       cols \in (SUBSET Names(DataColumns)) \ {{}},
                       year_dtype \in {Utf8, Int64},
                       n \in {NumCases} }
    /\ _lf = <<>>
    /\ returned = NewReturn
    /\ NoDecode
    /\ NoSchema
    /\ NoTable
    /\ NoBuild
    /\ NoApply
    /\ NoLabels
    /\ NoDictionary

SpecQuery == InitQuery /\ [][NextQuery]_vars

\* a session with one NCDBQuery in which every method is called
NextSession ==
    \/ NextQuery
    \/ /\ \/ filter_active_variables
          \/ \E n \in SampleSizes : sample(n)
          \/ \E c \in DelegatedCalls : __getattr__(c[1], c[2])
       /\ UNCHANGED <<pc, dataset, decode_vars, schema_vars, table,
                      build_vars, apply_vars, finish_vars, dict_vars>>

\* the data of a session: every column, or all but the year of diagnosis
SessionColumns ==
    { Names(DataColumns), Names(DataColumns) \ {YEAR_COLUMN} }

InitSession ==
    /\ pc = "query"
    /\ dataset \in { Dataset(cols, year_dtype, NumCases) :
                       cols \in SessionColumns,
                       year_dtype \in {Utf8, Int64} }
    /\ _lf = <<>>
    /\ returned = NewReturn
    /\ NoDecode
    /\ NoSchema
    /\ NoTable
    /\ NoBuild
    /\ NoApply
    /\ NoLabels
    /\ NoDictionary

SpecSession == InitSession /\ [][NextSession]_vars

-----------------------------------------------------------------------------
(* Properties of the query facade *)

-----------------------------------------------------------------------------
(* Properties of the query facade *)

LastStep == _lf[Len(_lf)]

\* the relation the last step of the plan was applied to
Before == Collect(dataset, SubSeq(_lf, 1, Len(_lf) - 1))

\* the year a cell of the year column denotes, as text or as a number;
\* -1 when it denotes none
YearOf(cell) ==
    IF IsNull(cell) THEN -1
    ELSE IF "int" \in DOMAIN cell THEN cell.int
    ELSE IF IsNumeral(cell) THEN DecimalValue(cell.str)
    ELSE -1

\* the last call counted a query that filter_by_year had just narrowed, on
\* a relation that has the year column
CountedYearFilter ==
    /\ returned.call = "count"
    /\ _lf # <<>>
    /\ LastStep.op = "is_in"
    /\ LastStep.col = YEAR_COLUMN
    /\ Before.error = "none"
    /\ YEAR_COLUMN \in Names(Before.columns)

\* C11: filter_by_year(years) keeps exactly the rows whose year of
\* diagnosis is one of the given years, whether the year column holds text
\* or numbers, and count() on the filtered query is the number of such rows
C11_FilterByYearKeepsGivenYears ==
    CountedYearFilter =>
        LET InYears(row) ==
                \E k \in 1..Len(LastStep.values) :
                    YearOf(row[YEAR_COLUMN]) = LastStep.values[k].int
            wanted == SelectSeq(Before.rows, InYears)
        IN  /\ returned.raised = "none"
            /\ returned.count = Len(wanted)
            /\ Collect(dataset, _lf).rows = wanted

\* the position of a column in a list
IndexIn(list, c) == CHOOSE k \in 1..Len(list) : list[k] = c

\* cols holds exactly the columns of `canonical` found in `present`, in the
\* order of `canonical`
IsCanonicalSelection(cols, canonical, present) ==
    /\ Names(cols) = Names(canonical) \cap Names(present)
    /\ \A i, j \in 1..Len(cols) :
          i < j => IndexIn(canonical, cols[i]) < IndexIn(canonical, cols[j])

SelectedBy(call, canonical) ==
    returned.call = call =>
        IF returned.raised # "none"
        THEN \* only a plan that was already broken makes the call raise
             Collect(dataset, _lf).error # "none"
        ELSE /\ LastStep.op = "select"
             /\ IsCanonicalSelection(
                    LastStep.cols, canonical,
                    PlanColumns(dataset, SubSeq(_lf, 1, Len(_lf) - 1)).columns)
             /\ PlanColumns(dataset, _lf).columns = LastStep.cols

\* C12: select_demographics and select_outcomes leave the query with
\* exactly the columns of their canonical list that the query had, in the
\* order of the canonical list, and do not raise when canonical columns,
\* some or all, are absent
C12_SelectsCanonicalColumnsPresent ==
    /\ SelectedBy("select_demographics", DEMOGRAPHIC_COLUMNS)
    /\ SelectedBy("select_outcomes", OUTCOME_COLUMNS)

\* select_demographics on data with SEX before AGE, without PUF_CASE_ID and
\* with columns outside the canonical list
C12_Witness ==
    /\ returned.call = "select_demographics"
    /\ returned.raised = "none"
    /\ dataset.columns = <<"SEX", "YEAR_OF_DIAGNOSIS", "AGE", "HISTOLOGY">>
    /\ _lf = <<Select(<<"AGE", "SEX">>)>>

NamedFilters ==
    { "filter_by_year", "filter_by_primary_site", "filter_by_histology",
      "drop_missing_vital_status" }

\* step k of the plan is a filter on a column that the relation it is
\* applied to lacks
FiltersMissingColumn(k) ==
    LET before == PlanColumns(dataset, SubSeq(_lf, 1, k - 1))
    IN  /\ _lf[k].op # "select"
        /\ before.error = "none"
        /\ _lf[k].col \notin Names(before.columns)

\* C13 as stated: a named filter called on a relation that lacks the column
\* it tests fails, that is, the call itself raises
C13_FilterCallFailsOnMissingColumn ==
    (returned.call \in NamedFilters /\ FiltersMissingColumn(Len(_lf)))
        => returned.raised # "none"

\* C13: a named filter on a relation that lacks the column it tests returns
\* a query that fails: count() raises, with ColumnNotFoundError when the
\* steps before the filter run, reading the columns raises, a selector
\* called on it raises, and no row count is ever returned
C13_QueryFailsOnMissingColumn ==
    \A k \in 1..Len(_lf) :
        FiltersMissingColumn(k) =>
            /\ Collect(dataset, _lf).error # "none"
            /\ Collect(dataset, SubSeq(_lf, 1, k - 1)).error = "none"
                  => Collect(dataset, _lf).error = "ColumnNotFoundError"
            /\ \A schema \in collect_schema(dataset, _lf) :
                  schema.error # "none"
            /\ returned.call \notin NamedFilters \cup {"none"}
                  => returned.raised # "none" /\ returned.count = 0

\* filter_by_year on data without the year column, then count()
C13_Witness ==
    /\ YEAR_COLUMN \notin Names(dataset.columns)
    /\ Len(_lf) = 1
    /\ _lf[1].col = YEAR_COLUMN
    /\ returned.call = "count"
    /\ returned.raised = "ColumnNotFoundError"

-----------------------------------------------------------------------------
(* _internal/validation.py *)

\* the exception classes of the program and the built-in ones above them
Superclasses(exc) ==
    IF exc = "NCDBValidationError"
    THEN {"NCDBValidationError", "ValueError", "Exception"}
    ELSE IF exc = "FileNotFoundError"
    THEN {"FileNotFoundError", "OSError", "Exception"}
    ELSE {exc, "Exception"}

EndsWith(chars, suffix) ==
    /\ Len(chars) >= Len(suffix)
    /\ SubSeq(chars, Len(chars) - Len(suffix) + 1, Len(chars)) = suffix

\* float(text) succeeds: an optional sign, then digits with at most one
\* point among them.  (The texts of the model hold no exponent, blank,
\* underscore, "inf" or "nan".)
ParsesAsFloat(chars) ==
    LET unsigned == IF chars # <<>> /\ Head(chars) \in {"-", "+"}
                    THEN Tail(chars) ELSE chars
    IN  /\ \A i \in 1..Len(unsigned) : IsDigit(unsigned[i]) \/ unsigned[i] = "."
        /\ \E i \in 1..Len(unsigned) : IsDigit(unsigned[i])
        /\ Cardinality({i \in 1..Len(unsigned) : unsigned[i] = "."}) <= 1

\* float(text) <= 0 for a text float() accepts
IsNotPositive(chars) ==
    \/ Head(chars) = "-"
    \/ \A i \in 1..Len(chars) : chars[i] \in {"0", ".", "+"}

\* sorted(multipliers.items(), key=lambda x: -len(x[0]))
MemorySuffixes == << <<"K", "B">>, <<"M", "B">>, <<"G", "B">>,
                     <<"T", "B">>, <<"B">> >>

\* lines 92-136, on a text already stripped and in upper case: the
\* exception raised, or "none" when a number of bytes is returned
validate_memory_limit(memory_limit) ==
    IF \E k \in 1..Len(MemorySuffixes) : EndsWith(memory_limit,
                                                  MemorySuffixes[k])
    THEN LET k == CHOOSE k \in 1..Len(MemorySuffixes) :
                     /\ EndsWith(memory_limit, MemorySuffixes[k])
                     /\ \A j \in 1..(k - 1) :
                           ~EndsWith(memory_limit, MemorySuffixes[j])
             amount == SubSeq(memory_limit, 1,
                              Len(memory_limit) - Len(MemorySuffixes[k]))
         IN  IF ParsesAsFloat(amount) /\ ~IsNotPositive(amount)
             THEN "none" ELSE "NCDBValidationError"
    ELSE "NCDBValidationError"

-----------------------------------------------------------------------------
(* builder.py: build_parquet_dataset *)

MaxBuilds == 2

\* the build in progress, or the last one started
ThisBuild == Len(outcomes)

Running == "running"
Returned_ok == "returned"

\* the finally clause, line 189
RemoveHandler(attached, build) == attached \ {build}

NoArguments == Arguments(FALSE, "none", <<>>, FALSE, FALSE, FALSE)

\* a variant of the failure path that leaves the handler attached
Fail_handler_kept(exc) ==
    /\ log' = log \cup {<<ThisBuild, "ERROR", exc>>}
    /\ handlers' = handlers
    /\ outcomes' = [outcomes EXCEPT ![ThisBuild] = exc]
    /\ build_args' = NoArguments
    /\ pc' = "idle"

\* lines 183-189: the exception is logged and re-raised, the handler removed
Fail(exc) ==
    /\ log' = log \cup {<<ThisBuild, "ERROR", exc>>}
    /\ handlers' = RemoveHandler(handlers, ThisBuild)
    /\ outcomes' = [outcomes EXCEPT ![ThisBuild] = exc]
    /\ build_args' = NoArguments
    /\ pc' = "idle"

\* a step went through: on to the next one
Proceed(next) ==
    /\ pc' = next
    /\ UNCHANGED <<build_args, handlers, log, outcomes>>

\* a step that writes `written` and then either goes on or raises, having
\* written all, or only some, of it
StepMayRaise(written, next) ==
    \/ /\ fs' = fs \cup {<<ThisBuild, f>> : f \in written}
       /\ Proceed(next)
    \/ \E done \in SUBSET written :
          /\ fs' = fs \cup {<<ThisBuild, f>> : f \in done}
          /\ Fail("OSError")

\* memory_limit: None, two well-formed texts, and malformed ones: no unit,
\* no amount, an amount that is no number, amounts that are not positive
NoLimit == <<>>

MemoryLimits ==
    { NoLimit, <<"8", "G", "B">>, <<"5", "1", "2", "M", "B">>,
      <<"8">>, <<"G", "B">>, <<"X", "G", "B">>, <<"0", "G", "B">>,
      <<"-", "1", "G", "B">> }

BuildArguments ==
    { Arguments(exists, files, memory_limit, transforms, verify, dictionary) :
        exists \in BOOLEAN, files \in {"parquet", "dat", "none"},
        memory_limit \in MemoryLimits, transforms \in BOOLEAN,
        verify \in BOOLEAN, dictionary \in BOOLEAN }

\* lines 71-103: the checks and the set-up before the try block
StartBuild(arguments) ==
    /\ pc = "idle"
    /\ Len(outcomes) < MaxBuilds
    /\ LET build == Len(outcomes) + 1
       IN  IF ~arguments.data_dir_exists
           THEN \* lines 73-74
                /\ outcomes' = Append(outcomes, "FileNotFoundError")
                /\ UNCHANGED <<pc, build_args, fs, handlers, log>>
           ELSE \* lines 76-103: the memory limit is only logged
                /\ build_args' = arguments
                /\ fs' = fs \cup {<<build, "output_dir">>,
                                  <<build, "build.log">>}
                /\ handlers' = handlers \cup {build}
                /\ log' = log \cup {<<build, "INFO", "Starting">>}
                /\ outcomes' = Append(outcomes, Running)
                /\ pc' = "convert"

\* lines 107-142: copy the parquet files, or convert the data files
Convert ==
    /\ pc = "convert"
    /\ IF build_args.files = "none"
       THEN Fail("FileNotFoundError") /\ UNCHANGED fs
       ELSE StepMayRaise({"dataset.parquet"}, "transform")

\* lines 145-148
Transform ==
    /\ pc = "transform"
    /\ IF build_args.apply_transforms
       THEN StepMayRaise({}, "verify")
       ELSE Proceed("verify") /\ UNCHANGED fs

\* lines 151-156
Verify ==
    /\ pc = "verify"
    /\ IF build_args.verify_files
       THEN StepMayRaise({}, "dictionary")
       ELSE Proceed("dictionary") /\ UNCHANGED fs

\* lines 159-167
Dictionary ==
    /\ pc = "dictionary"
    /\ IF build_args.generate_dictionary
       THEN StepMayRaise({"data_dictionary.csv"}, "summary")
       ELSE Proceed("summary") /\ UNCHANGED fs

\* lines 170-181 and 187-189: the summary is written and the build returns
Summary ==
    /\ pc = "summary"
    /\ \/ /\ fs' = fs \cup {<<ThisBuild, "dataset_summary.json">>}
          /\ log' = log \cup {<<ThisBuild, "INFO", "completed">>}
          /\ handlers' = RemoveHandler(handlers, ThisBuild)
          /\ outcomes' = [outcomes EXCEPT ![ThisBuild] = Returned_ok]
          /\ build_args' = NoArguments
          /\ pc' = "idle"
       \/ Fail("OSError") /\ UNCHANGED fs

NextBuild ==
    /\ \/ \E arguments \in BuildArguments : StartBuild(arguments)
       \/ Convert
       \/ Transform
       \/ Verify
       \/ Dictionary
       \/ Summary
    /\ UNCHANGED <<decode_vars, schema_vars, table, query_vars, apply_vars,
                   finish_vars, dict_vars>>

InitBuild ==
    /\ pc = "idle"
    /\ NoBuild
    /\ NoDecode
    /\ NoSchema
    /\ NoTable
    /\ NoQuery
    /\ NoApply
    /\ NoLabels
    /\ NoDictionary

SpecBuild == InitBuild /\ [][NextBuild]_vars

-----------------------------------------------------------------------------
(* Properties of build_parquet_dataset *)

\* the exception is an instance of the class
IsInstance(exc, class) == class \in Superclasses(exc)

\* the step made nothing: no directory, no file, no handler, no log record
NothingCreated == UNCHANGED <<fs, handlers, log>>

\* C14: a build called on a data directory that does not exist raises
\* NCDBValidationError and creates nothing
C14_MissingDataDirRaisesValidationError ==
    [][\A arguments \in BuildArguments :
          (~arguments.data_dir_exists /\ StartBuild(arguments)) =>
              /\ IsInstance(outcomes'[Len(outcomes')], "NCDBValidationError")
              /\ NothingCreated]_vars

\* a memory_limit text that validate_memory_limit refuses
IsMalformed(memory_limit) ==
    memory_limit # NoLimit /\ validate_memory_limit(memory_limit) # "none"

\* C15: a build called with a malformed memory_limit, on a data directory
\* that exists, raises ValueError and creates nothing
C15_MalformedMemoryLimitRaisesValueError ==
    [][\A arguments \in BuildArguments :
          (/\ arguments.data_dir_exists
           /\ IsMalformed(arguments.memory_limit)
           /\ StartBuild(arguments)) =>
              /\ IsInstance(outcomes'[Len(outcomes')], "ValueError")
              /\ NothingCreated]_vars

\* a step that ends the build in progress
EndsBuild == pc # "idle" /\ pc' = "idle"

\* C17: when a step of the pipeline raises, the exception is written to
\* the build log and is the one the caller gets, the handler of the build
\* is detached as it is on success, so that no handler is attached once a
\* build has ended, and every file written so far stays
C17_FailureIsLoggedAndCleanedUp ==
    [][EndsBuild =>
          /\ handlers' = {}
          /\ fs \subseteq fs'
          /\ outcomes'[ThisBuild] # Running
          /\ outcomes'[ThisBuild] # Returned_ok =>
                /\ <<ThisBuild, "ERROR", outcomes'[ThisBuild]>> \in log'
                /\ IsInstance(outcomes'[ThisBuild], "Exception")]_vars

\* a second build has failed after the dictionary was written, the first
\* one having succeeded: both outputs are there and no handler is attached
C17_Witness ==
    /\ pc = "idle"
    /\ Len(outcomes) = 2
    /\ outcomes[1] = Returned_ok
    /\ outcomes[2] = "OSError"
    /\ <<2, "data_dictionary.csv">> \in fs
    /\ <<2, "dataset_summary.json">> \notin fs
    /\ <<2, "ERROR", "OSError">> \in log
    /\ handlers = {}

-----------------------------------------------------------------------------
(* _internal/transform.py: apply_transformations on the files of a build *)

\* a floating-point cell; the model holds whole numbers only
FloatV(n) == [float |-> n]

\* the text polars gives a number
NumberText(cell) ==
    IF "int" \in DOMAIN cell THEN FormatNat(cell.int)
    ELSE FormatNat(cell.float) \o <<".", "0">>

\* pl.col(c).cast(target, strict=False) on one cell of a column of type
\* `from`: null where the value cannot be converted
Cast(cell, from, target) ==
    IF IsNull(cell) \/ from = target THEN cell
    ELSE IF target = Utf8 THEN StrV(NumberText(cell))
    ELSE IF target = Float64
    THEN IF from = Int64 THEN FloatV(cell.int)
         ELSE LET n == CastStrToInt64(cell)
              IN  IF IsNull(n) THEN Null ELSE FloatV(n.int)
    ELSE IF from = Float64 THEN IntV(cell.float)
    ELSE CastStrToInt64(cell)

\* a variant without the test of lines 133-135
IsConverted_never_numeric_too(col, current_schema, target_schema) ==
    /\ col \in DOMAIN target_schema
    /\ col \in DOMAIN current_schema
    /\ current_schema[col] # target_schema[col]

\* lines 131-137: the column is cast to the type of the target schema
IsConverted(col, current_schema, target_schema) ==
    /\ col \in DOMAIN target_schema
    /\ col \in DOMAIN current_schema
    /\ current_schema[col] # target_schema[col]
    /\ ~(col \in NEVER_NUMERIC_COLUMNS /\ target_schema[col] # Utf8)

\* a variant that casts no column
apply_data_type_conversions_none(t, target_schema) == t

\* lines 116-143
apply_data_type_conversions(t, target_schema) ==
    LET cols == DOMAIN t.schema
    IN  [schema |-> [c \in cols |->
                        IF IsConverted(c, t.schema, target_schema)
                        THEN target_schema[c] ELSE t.schema[c]],
         rows   |-> [i \in 1..Len(t.rows) |->
                        [c \in cols |->
                            IF IsConverted(c, t.schema, target_schema)
                            THEN Cast(t.rows[i][c], t.schema[c],
                                      target_schema[c])
                            ELSE t.rows[i][c]]]]

\* lines 161 and 167: pl.col("AGE") == "90+" on a column that is not a
\* string column
ComparesNumberWithText(t) ==
    "AGE" \in DOMAIN t.schema /\ t.schema["AGE"] # Utf8

\* line 42: what apply_ncdb_specific_transformations ends with.  polars
\* refuses to compare a numeric column with a string (ComputeError); an
\* engine that allowed the comparison would find no number equal to "90+".
\* Both outcomes are kept.
DeriveOutcomes(t) ==
    {[error |-> "none", table |-> apply_ncdb_specific_transformations(t)]}
        \cup IF ComparesNumberWithText(t)
             THEN {[error |-> "ComputeError", table |-> t]}
             ELSE {}

\* lines 33-47: the next file is read, converted, derived and written back;
\* an exception ends the run with the file as it was
TransformFile ==
    /\ pc = "schema_done"
    /\ Len(outputs) < Len(originals)
    /\ LET read == originals[Len(outputs) + 1]
           converted == apply_data_type_conversions(read, optimal_schema)
       IN  \E outcome \in DeriveOutcomes(converted) :
              IF outcome.error = "none"
              THEN outputs' = Append(outputs, outcome.table) /\ UNCHANGED pc
              ELSE pc' = "failed" /\ UNCHANGED outputs
    /\ UNCHANGED <<originals, runs, schema_vars, decode_vars, table,
                   query_vars, build_vars, finish_vars, dict_vars>>

NextApply == ScanSchema \/ ResolveSchema \/ TransformFile

-----------------------------------------------------------------------------
(* Inputs of apply_transformations *)

\* the cells of the two rows of a file, for a column of a given type
ApplyCells(col, type) ==
    IF col = "TUMOR_SIZE"
    THEN IF type = Int64 THEN <<IntV(12), Null>>
         ELSE IF type = Float64 THEN <<FloatV(3), FloatV(40)>>
         ELSE <<StrV(<<"1", "2">>), StrV(<<"a">>)>>
    ELSE IF col = "YEAR_OF_DIAGNOSIS"
    THEN IF type = Int64 THEN <<IntV(2020), IntV(2021)>>
         ELSE <<StrV(<<"2", "0", "2", "0">>), Null>>
    ELSE IF col = "AGE"
    THEN IF type = Int64 THEN <<IntV(67), Null>>
         ELSE <<StrV(NinetyPlus), StrV(<<"6", "7">>)>>
    ELSE <<IntV(7), Null>>

ApplySchemas ==
    { [col \in {c \in DOMAIN pick : pick[c] # Absent} |-> pick[col]] :
        pick \in [TUMOR_SIZE : {Absent, Utf8, Float64, Int64},
                  YEAR_OF_DIAGNOSIS : {Absent, Utf8, Int64},
                  AGE : {Absent, Utf8},
                  AGE_AS_INT : {Absent, Int64}] } \ {<<>>}

\* a parquet file of two rows with the given schema
ParquetFile(schema) ==
    [schema |-> schema,
     rows   |-> [i \in 1..2 |->
                    [c \in DOMAIN schema |-> ApplyCells(c, schema[c])[i]]]]

InitApply ==
    /\ pc = "scan"
    /\ originals \in UNION {[1..k -> {ParquetFile(schema) :
                                         schema \in ApplySchemas}] :
                               k \in 1..2}
    /\ outputs = <<>>
    /\ runs = 0
    /\ parquet_files = [i \in 1..Len(originals) |-> originals[i].schema]
    /\ SchemaStart
    /\ NoDecode
    /\ NoTable
    /\ NoQuery
    /\ NoBuild
    /\ NoLabels
    /\ NoDictionary

SpecApply == InitApply /\ [][NextApply]_vars

-----------------------------------------------------------------------------
(* apply_transformations called again on the directory it has transformed *)

\* the calls made on one directory
MaxRuns == 2

\* lines 26-30 of the next call: the files are the ones the last call wrote
RunAgain ==
    /\ pc = "schema_done"
    /\ originals # <<>>
    /\ Len(outputs) = Len(originals)
    /\ runs + 1 < MaxRuns
    /\ runs' = runs + 1
    /\ originals' = outputs
    /\ outputs' = <<>>
    /\ parquet_files' = [k \in 1..Len(outputs) |-> outputs[k].schema]
    /\ file_idx' = 0
    /\ all_columns' = {}
    /\ column_types' = <<>>
    /\ optimal_schema' = <<>>
    /\ pc' = "scan"
    /\ UNCHANGED <<decode_vars, table, query_vars, build_vars, finish_vars,
                   dict_vars>>

NextRerun == NextApply \/ RunAgain

SpecRerun == InitApply /\ [][NextRerun]_vars

-----------------------------------------------------------------------------
(* apply_data_type_conversions on a table and a target schema of any kind *)

\* line 41 on its own: the table is converted to the target schema; the
\* table as it was is kept for comparison
ConvertTable ==
    /\ pc = "to_convert"
    /\ originals' = <<table>>
    /\ table' = apply_data_type_conversions(table, optimal_schema)
    /\ pc' = "converted"
    /\ UNCHANGED <<parquet_files, file_idx, all_columns, column_types,
                   optimal_schema, outputs, runs, decode_vars, query_vars,
                   build_vars, finish_vars, dict_vars>>

NextConvert == ConvertTable

\* the schemas of the tables
ConvertSchemas ==
    { [col \in {c \in DOMAIN pick : pick[c] # Absent} |-> pick[col]] :
        pick \in [TUMOR_SIZE : {Absent, Utf8, Float64, Int64},
                  YEAR_OF_DIAGNOSIS : {Absent, Utf8, Int64},
                  AGE : {Absent, Utf8, Int64}] } \ {<<>>}

\* the target schemas: any type for any column, SEX being a column no table
\* has
TargetSchemas ==
    { [col \in {c \in DOMAIN pick : pick[c] # Absent} |-> pick[col]] :
        pick \in [TUMOR_SIZE : {Absent, Utf8, Float64, Int64},
                  YEAR_OF_DIAGNOSIS : {Absent, Utf8, Float64, Int64},
                  AGE : {Absent, Utf8, Int64},
                  SEX : {Absent, Utf8}] }

InitConvert ==
    /\ pc = "to_convert"
    /\ table \in {ParquetFile(schema) : schema \in ConvertSchemas}
    /\ optimal_schema \in TargetSchemas
    /\ parquet_files = <<>>
    /\ file_idx = 0
    /\ all_columns = {}
    /\ column_types = <<>>
    /\ NoDecode
    /\ NoQuery
    /\ NoBuild
    /\ NoApply
    /\ NoLabels
    /\ NoDictionary

SpecConvert == InitConvert /\ [][NextConvert]_vars

-----------------------------------------------------------------------------
(* Properties of apply_transformations *)

DerivedColumns ==
    {"AGE_AS_INT", "AGE_IS_90_PLUS", "SITE_GROUP", "HISTOLOGY_GROUP"}

\* file k has been written back
Written(k) == k \in 1..Len(outputs)

-----------------------------------------------------------------------------
(* dataset_builder.py: what build_dataset does to the decoded table *)

\* the spelling of the column names the pattern test is applied to
Spelling(col) ==
    IF col = "AGE" THEN <<"A", "G", "E">>
    ELSE IF col = "YEAR_OF_DIAGNOSIS"
    THEN <<"Y", "E", "A", "R", "_", "O", "F", "_",
           "D", "I", "A", "G", "N", "O", "S", "I", "S">>
    ELSE IF col = "SEX" THEN <<"S", "E", "X">>
    ELSE IF col = "TUMOR_SIZE"
    THEN <<"T", "U", "M", "O", "R", "_", "S", "I", "Z", "E">>
    ELSE <<"R", "A", "C", "E">>

\* lines 168-170
numeric_patterns ==
    << <<"A", "G", "E">>, <<"Y", "E", "A", "R">>, <<"D", "A", "Y", "S">>,
       <<"S", "I", "Z", "E">>, <<"N", "O", "D", "E", "S">>,
       <<"D", "O", "S", "E">>,
       <<"F", "R", "A", "C", "T", "I", "O", "N">>,
       <<"M", "O", "N", "T", "H", "S">> >>

\* pattern in text
Contains(text, pattern) ==
    \E i \in 1..(Len(text) - Len(pattern) + 1) :
        SubSeq(text, i, i + Len(pattern) - 1) = pattern

\* lines 172-178: the column is one the function converts.  (The names of
\* the model are in upper case already.)
IsNumericColumn(col) ==
    /\ Head(Spelling(col)) # "_"
    /\ \E k \in 1..Len(numeric_patterns) :
          Contains(Spelling(col), numeric_patterns[k])

\* lines 182-184 on one cell: strip_chars, replace("", None), cast to Int64
CoerceCell(cell) ==
    LET stripped == IF IsNull(cell) THEN cell ELSE StrV(Strip(cell.str))
        replaced == IF stripped = StrV(<<>>) THEN Null ELSE stripped
    IN  CastStrToInt64(replaced)

\* pl.DataFrame(batch_data): a table of string columns
FrameOfRecords(records) ==
    LET cols == IF records = <<>> THEN {} ELSE DOMAIN records[1]
    IN  [schema |-> [c \in cols |-> Utf8],
         rows   |-> [i \in 1..Len(records) |->
                        [c \in cols |-> StrV(records[i][c])]]]

\* lines 165-191
_apply_transformations(t) ==
    LET cols == DOMAIN t.schema
    IN  [schema |-> [c \in cols |->
                        IF IsNumericColumn(c) THEN Int64 ELSE t.schema[c]],
         rows   |-> [i \in 1..Len(t.rows) |->
                        [c \in cols |->
                            IF IsNumericColumn(c) THEN CoerceCell(t.rows[i][c])
                            ELSE t.rows[i][c]]]]

\* the name of the sibling column of labels
LabelColumn(col) ==
    IF col = "AGE" THEN "AGE_LABEL"
    ELSE IF col = "YEAR_OF_DIAGNOSIS" THEN "YEAR_OF_DIAGNOSIS_LABEL"
    ELSE IF col = "SEX" THEN "SEX_LABEL"
    ELSE IF col = "TUMOR_SIZE" THEN "TUMOR_SIZE_LABEL"
    ELSE "RACE_LABEL"

\* cast(pl.Utf8) on one cell
CastToUtf8(cell) ==
    IF IsNull(cell) \/ "str" \in DOMAIN cell THEN cell
    ELSE StrV(FormatNat(cell.int))

\* Expr.replace(value_map) on one cell: a value outside the mapping is kept
Replace(cell, value_map) ==
    IF IsNull(cell) THEN cell
    ELSE IF cell.str \in DOMAIN value_map THEN Label(value_map[cell.str])
    ELSE cell

\* lines 194-208
_apply_value_labels(t, formats) ==
    LET cols == DOMAIN t.schema
        labelled == {c \in DOMAIN formats : c \in cols}
        new == {LabelColumn(c) : c \in labelled}
        Source(n) == CHOOSE c \in labelled : LabelColumn(c) = n
    IN  [schema |-> [c \in cols \cup new |->
                        IF c \in new THEN Utf8 ELSE t.schema[c]],
         rows   |-> [i \in 1..Len(t.rows) |->
                        [c \in cols \cup new |->
                            IF c \in new
                            THEN Replace(CastToUtf8(t.rows[i][Source(c)]),
                                         formats[Source(c)])
                            ELSE t.rows[i][c]]]]

\* build_dataset, line 118
Coerce ==
    /\ pc = "decoded"
    /\ table' = _apply_transformations(FrameOfRecords(df))
    /\ pc' = "coerced"
    /\ UNCHANGED <<decode_vars, schema_vars, later_vars>>

\* build_dataset, lines 121-122
ApplyValueLabels ==
    /\ pc = "coerced"
    /\ table' = IF value_formats # <<>>
                THEN _apply_value_labels(table, value_formats) ELSE table
    /\ pc' = "labelled"
    /\ UNCHANGED <<decode_vars, schema_vars, later_vars>>

NextFinish == Coerce \/ ApplyValueLabels

-----------------------------------------------------------------------------
(* Inputs of the last steps of build_dataset *)

\* rows as _parse_line leaves them: trimmed text, empty for a blank field
DecodedRows ==
    { [AGE |-> <<"6", "7">>, SEX |-> <<"1">>, TUMOR_SIZE |-> <<"1", "2">>],
      [AGE |-> <<>>, SEX |-> <<>>, TUMOR_SIZE |-> <<>>],
      [AGE |-> NinetyPlus, SEX |-> <<"9">>, TUMOR_SIZE |-> <<"a">>],
      [AGE |-> <<"0", "5">>, SEX |-> <<"2">>, TUMOR_SIZE |-> <<>>],
      [AGE |-> <<"6", "7">>, SEX |-> <<>>, TUMOR_SIZE |-> <<"9", "9">>] }

SexLabels == (<<"1">> :> "Male") @@ (<<"2">> :> "Female")

SizeLabels == (<<"9", "9">> :> "Unknown size")

\* the value labels a layout may declare, also for a column not decoded
ValueFormats ==
    { <<>>,
      [SEX |-> SexLabels],
      [SEX |-> SexLabels, RACE |-> (<<"1">> :> "White")],
      [SEX |-> SexLabels, TUMOR_SIZE |-> SizeLabels] }

InitFinish ==
    /\ pc = "decoded"
    /\ \E cols \in (SUBSET {"AGE", "SEX", "TUMOR_SIZE"}) \ {{}} :
          \E rs \in SeqsUpTo(DecodedRows, MaxRows) :
             df = [i \in 1..Len(rs) |-> [c \in cols |-> rs[i][c]]]
    /\ value_formats \in ValueFormats
    /\ input_path = FilePath("", <<>>)
    /\ input_file = <<>>
    /\ columns_file = NoFile
    /\ sas_layout = <<>>
    /\ batch_size = DefaultBatchSize
    /\ column_defs = <<>>
    /\ pos = 0
    /\ batch_data = <<>>
    /\ batches = <<>>
    /\ NoSchema
    /\ NoTable
    /\ NoQuery
    /\ NoBuild
    /\ NoApply
    /\ NoDictionary

SpecFinish == InitFinish /\ [][NextFinish]_vars

-----------------------------------------------------------------------------
(* Properties of the last steps of build_dataset *)

\* C18: for every column with a value-label map, the labelled table has a
\* column <COLUMN>_LABEL holding the label of the row's code when the map
\* has the code and null when it has not; the column itself is unchanged
C18_LabelOrNull ==
    pc = "labelled" =>
        \A c \in DOMAIN value_formats :
            c \in DOMAIN FrameOfRecords(df).schema =>
                /\ LabelColumn(c) \in DOMAIN table.schema
                /\ \A i \in 1..Len(table.rows) :
                      LET code == CastToUtf8(table.rows[i][c])
                          label == table.rows[i][LabelColumn(c)]
                      IN  /\ table.rows[i][c]
                                = _apply_transformations(
                                      FrameOfRecords(df)).rows[i][c]
                          /\ IF ~IsNull(code)
                                /\ code.str \in DOMAIN value_formats[c]
                             THEN label = Label(value_formats[c][code.str])
                             ELSE IsNull(label)

\* C19: once the type coercion has run, a field extracted as the empty
\* string is null in the table, in every column
C19_EmptyFieldIsNull ==
    pc \in {"coerced", "labelled"} =>
        \A i \in 1..Len(df) :
            \A c \in DOMAIN df[i] :
                df[i][c] = <<>> => IsNull(table.rows[i][c])

-----------------------------------------------------------------------------
(* data_dictionary.py: DataDictionaryGenerator.generate_from_parquet *)

\* output_dir / ("data_dictionary." + fmt)
DefaultPath(output_dir, fmt) ==
    Path(output_dir, "data_dictionary",
         IF fmt = "csv" THEN ".csv"
         ELSE IF fmt = "json" THEN ".json" ELSE ".html")

\* lines 49-55: the directory the files go to and the output file in use
OutputFile(arguments) ==
    IF arguments.output_file # NoPath THEN arguments.output_file
    ELSE DefaultPath(IF arguments.is_file THEN arguments.parquet_parent
                     ELSE arguments.parquet_path, "csv")

OutputDir(arguments) == OutputFile(arguments).parent

\* lines 74-94: the path the dictionary is written to in one format
PathFor(arguments, fmt) ==
    IF OutputFile(arguments).suffix = DefaultPath("", fmt).suffix
    THEN OutputFile(arguments)
    ELSE DefaultPath(OutputDir(arguments), fmt)

SupportedFormats == {"csv", "json", "html"}

\* the first path written, or none yet
PrimaryOutput(arguments, written) ==
    IF written = 0 THEN NoPath ELSE PathFor(arguments, arguments.formats[1])

\* lines 43-71: the call starts, the data is read
GenerateFromParquet(arguments) ==
    /\ pc = "dictionary_idle"
    /\ dict_args' = arguments
    /\ fmt_idx' = 0
    /\ output_paths' = <<>>
    /\ dict_result' = [raised |-> "none", path |-> NoPath]
    /\ pc' = "dictionary_write"

\* lines 73-100: one round of the loop over the formats
WriteFormat ==
    /\ pc = "dictionary_write"
    /\ fmt_idx < Len(dict_args.formats)
    /\ LET fmt == dict_args.formats[fmt_idx + 1]
       IN  IF fmt \in SupportedFormats
           THEN /\ output_paths' = (fmt :> PathFor(dict_args, fmt))
                                       @@ output_paths
                /\ fmt_idx' = fmt_idx + 1
                /\ UNCHANGED <<pc, dict_result>>
           ELSE /\ dict_result' = [raised |-> "ValueError", path |-> NoPath]
                /\ pc' = "dictionary_idle"
                /\ UNCHANGED <<fmt_idx, output_paths>>
    /\ UNCHANGED dict_args

\* lines 102-103
ReturnPrimary ==
    /\ pc = "dictionary_write"
    /\ fmt_idx = Len(dict_args.formats)
    /\ dict_result' =
          [raised |-> "none",
           path |-> IF fmt_idx = 0 THEN OutputFile(dict_args)
                    ELSE PrimaryOutput(dict_args, fmt_idx)]
    /\ pc' = "dictionary_done"
    /\ UNCHANGED <<dict_args, fmt_idx, output_paths>>

MaxFormats == 3

Formats ==
    {f \in SeqsUpTo(SupportedFormats \cup {"xml"}, MaxFormats) :
        \A i, j \in 1..Len(f) : i # j => f[i] # f[j]}

\* output_file: not given, or a name in the directory D
OutputFiles ==
    {NoPath} \cup
    { Path("D", stem, suffix) :
        stem \in {"test_dict", "data_dictionary"},
        suffix \in {".csv", ".json", ".html", ".txt", ""} }

\* parquet_path is a directory of parquet files, or one parquet file
DictionaryArguments ==
    { [parquet_path |-> "data/parquet", parquet_parent |-> "data",
       is_file |-> FALSE, output_file |-> output_file,
       formats |-> formats] :
        output_file \in OutputFiles, formats \in Formats }
    \cup
    { [parquet_path |-> "data/one.parquet", parquet_parent |-> "data",
       is_file |-> TRUE, output_file |-> NoPath, formats |-> formats] :
        formats \in Formats }

NextDictionary ==
    /\ \/ \E arguments \in DictionaryArguments :
             GenerateFromParquet(arguments)
       \/ WriteFormat
       \/ ReturnPrimary
    /\ UNCHANGED <<decode_vars, schema_vars, table, query_vars, build_vars,
                   apply_vars, finish_vars>>

InitDictionary ==
    /\ pc = "dictionary_idle"
    /\ NoDictionary
    /\ NoDecode
    /\ NoSchema
    /\ NoTable
    /\ NoQuery
    /\ NoBuild
    /\ NoApply
    /\ NoLabels

SpecDictionary == InitDictionary /\ [][NextDictionary]_vars

-----------------------------------------------------------------------------
(* Properties of the data dictionary writer *)

\* the files the call has written
WrittenPaths == {output_paths[fmt] : fmt \in DOMAIN output_paths}

\* C20: a call with the formats csv, json and html and an output_file in a
\* directory D writes D/data_dictionary.csv, D/data_dictionary.json and
\* D/data_dictionary.html, whatever the name of output_file
C20_OneDefaultNamedFilePerFormat ==
    (/\ pc = "dictionary_done"
     /\ dict_args.formats = <<"csv", "json", "html">>
     /\ dict_args.output_file # NoPath) =>
        \A fmt \in SupportedFormats :
            DefaultPath(dict_args.output_file.parent, fmt) \in WrittenPaths

-----------------------------------------------------------------------------
(* Properties of a session with an NCDBQuery *)

\* the methods that are meant to extend the plan only
LazyMethods ==
    NamedFilters \cup { "filter_active_variables", "select_demographics",
                        "select_outcomes" }

\* C21: sample(n) on a query whose plan runs returns a DataFrame: it does not
\* raise, also when the result has fewer than n rows, and what it returns
\* are at most n rows, each of them a row of the query's result
C21_SampleReturnsAtMostN ==
    [][\A n \in SampleSizes :
          (sample(n) /\ Collect(dataset, _lf).error = "none") =>
              /\ returned'.raised = "none"
              /\ Len(returned'.rows) <= n
              /\ \A i \in 1..Len(returned'.rows) :
                    \E j \in 1..Len(Collect(dataset, _lf).rows) :
                        returned'.rows[i] = Collect(dataset, _lf).rows[j]]_vars

\* C22: a filter or selector method only extends the plan; none of them
\* runs the plan against the data, which only count, collect and sample do
C22_OnlyTerminalCallsExecute ==
    returned.call \in LazyMethods => returned.collects = 0

\* C28: a call of a filter or selector method leaves the rows the receiver
\* yields as they were; only the query the call returns is narrowed
C28_ReceiverUnchangedByNamedCall ==
    [][returned'.call \in LazyMethods =>
          Collect(dataset, _lf') = Collect(dataset, _lf)]_vars

-----------------------------------------------------------------------------
(* Properties of the grouping rules *)

\* the rules in the order p, a permutation of their positions
Reordered(rules, p) == [k \in 1..Len(rules) |-> rules[p[k]]]

Orderings(rules) ==
    {Reordered(rules, p) : p \in Permutations(1..Len(rules))}

IsPrefixOf(a, b) == Len(a) <= Len(b) /\ SubSeq(b, 1, Len(a)) = a

\* no rule's prefix starts the prefix of a rule of another group
NonOverlapping(rules) ==
    \A i, j \in 1..Len(rules) :
        IsPrefixOf(rules[i].prefix, rules[j].prefix)
            => rules[i].group = rules[j].group

\* the groups that have a rule matching the code
MatchingGroups(rules, cell) ==
    {rules[k].group :
        k \in {j \in 1..Len(rules) :
                  StartsWith(cell, rules[j].prefix) = BoolV(TRUE)}}

\* under every ordering of the rules each of the codes gets the group the
\* rules give it in the order of the source
OrderIndependent(rules, cells) ==
    \A i \in 1..Len(cells) :
        \A ordering \in Orderings(rules) :
            WhenChain(ordering, cells[i]) = WhenChain(rules, cells[i])

SiteGroupsOrderIndependent == OrderIndependent(SiteRules, SiteCells)

HistologyGroupsOrderIndependent ==
    OrderIndependent(HistologyRules, HistologyCells)

\* the one group matching the code, or "Other"
GroupOf(rules, cell) ==
    IF MatchingGroups(rules, cell) = {} THEN Label("Other")
    ELSE Label(CHOOSE g \in MatchingGroups(rules, cell) : TRUE)

\* C30: the prefix rules of the site groups and of the histology groups do
\* not overlap: no prefix starts the prefix of a rule of another group, at
\* most one group has a rule matching a code, SITE_GROUP and HISTOLOGY_GROUP
\* are that group (or "Other"), and every ordering of the rules gives the
\* same group
C30_GroupRulesDoNotOverlap ==
    /\ NonOverlapping(SiteRules)
    /\ NonOverlapping(HistologyRules)
    /\ SiteGroupsOrderIndependent
    /\ HistologyGroupsOrderIndependent
    /\ pc = "derived" =>
          \A i \in 1..Len(table.rows) :
              LET row == table.rows[i]
              IN  /\ "PRIMARY_SITE" \in DOMAIN row =>
                        /\ Cardinality(MatchingGroups(SiteRules,
                                           row["PRIMARY_SITE"])) <= 1
                        /\ row["SITE_GROUP"]
                              = GroupOf(SiteRules, row["PRIMARY_SITE"])
                  /\ "HISTOLOGY" \in DOMAIN row =>
                        /\ Cardinality(MatchingGroups(HistologyRules,
                                           row["HISTOLOGY"])) <= 1
                        /\ row["HISTOLOGY_GROUP"]
                              = GroupOf(HistologyRules, row["HISTOLOGY"])

\* a table with the codes C729 / 9670 and C509 / 8140, each matched by the
\* rule of one group
C30_Witness ==
    /\ pc = "derived"
    /\ Len(table.rows) = 2
    /\ DOMAIN table.schema
          = {"PRIMARY_SITE", "HISTOLOGY", "SITE_GROUP", "HISTOLOGY_GROUP"}
    /\ table.rows[1]["PRIMARY_SITE"] = StrV(<<"C", "7", "2", "9">>)
    /\ table.rows[1]["SITE_GROUP"] = Label("Brain/CNS")
    /\ table.rows[1]["HISTOLOGY"] = StrV(<<"9", "6", "7", "0">>)
    /\ table.rows[1]["HISTOLOGY_GROUP"] = Label("Lymphoma")
    /\ table.rows[2]["PRIMARY_SITE"] = StrV(<<"C", "5", "0", "9">>)
    /\ table.rows[2]["HISTOLOGY_GROUP"] = Label("Adenocarcinoma")

-----------------------------------------------------------------------------
(* dataset_builder.py: the provenance columns, and the pipeline that takes a
   decoded file through apply_transformations *)

\* the literal texts of the pattern of line 213
NCDBPUF_ == <<"N", "C", "D", "B", "P", "U", "F", "_">>

DotDat == <<".", "d", "a", "t">>

Unknown == <<"U", "n", "k", "n", "o", "w", "n">>

\* re.match(r"NCDBPUF_(.+?)\..*\.dat", filename): the lengths the group can
\* have.  The match starts at the first character and may end before the
\* last; the group has one character or more, a dot follows it, and ".dat"
\* occurs somewhere after that dot.
GroupLengths(filename) ==
    LET start == Len(NCDBPUF_)
    IN  { n \in 1..(Len(filename) - start) :
            /\ SubSeq(filename, 1, start) = NCDBPUF_
            /\ start + n + 1 <= Len(filename)
            /\ filename[start + n + 1] = "."
            /\ \E at \in (start + n + 2)..(Len(filename) - Len(DotDat) + 1) :
                  SubSeq(filename, at, at + Len(DotDat) - 1) = DotDat }

\* variant: the group taken as long as it can be, as (.+) would
_extract_tumor_type_greedy(filename) ==
    IF GroupLengths(filename) = {} THEN Unknown
    ELSE SubSeq(filename, Len(NCDBPUF_) + 1,
                Len(NCDBPUF_) + Max(GroupLengths(filename)))

\* lines 211-216: the group is lazy, so it is the shortest one that matches
_extract_tumor_type(filename) ==
    IF GroupLengths(filename) = {} THEN Unknown
    ELSE SubSeq(filename, Len(NCDBPUF_) + 1,
                Len(NCDBPUF_) + Min(GroupLengths(filename)))

\* DataFrame.with_columns of two literals, lines 125-128.  A frame without
\* columns has no height of its own: the literals make it a frame of
\* `height' rows.
WithLiterals(t, tumor_type, source_file, height) ==
    LET cols == DOMAIN t.schema
        new == {"_tumor_type", "_source_file"}
        n == IF cols = {} THEN height ELSE Len(t.rows)
    IN  [schema |-> [c \in cols \cup new |->
                        IF c \in new THEN Utf8 ELSE t.schema[c]],
         rows   |-> [i \in 1..n |->
                        [c \in cols \cup new |->
                            IF c = "_tumor_type" THEN StrV(tumor_type)
                            ELSE IF c = "_source_file" THEN StrV(source_file)
                            ELSE t.rows[i][c]]]]

\* the heights polars gives a frame without columns that receives a literal:
\* one row, or none in a version that keeps the height of the empty frame
LiteralHeights == {0, 1}

\* build_dataset, lines 81 and 124-128
AddMetadata ==
    /\ pc = "labelled"
    /\ \E height \in LiteralHeights :
          table' = WithLiterals(table, _extract_tumor_type(input_path.name),
                                input_path.name, height)
    /\ pc' = "tagged"
    /\ UNCHANGED <<decode_vars, schema_vars, later_vars>>

\* build_dataset, line 131, and builder.py, line 148: the table is written
\* as the parquet file of the directory apply_transformations works on
WriteParquet ==
    /\ pc = "tagged"
    /\ originals' = <<table>>
    /\ parquet_files' = <<table.schema>>
    /\ pc' = "scan"
    /\ UNCHANGED <<file_idx, all_columns, column_types, optimal_schema,
                   outputs, runs, decode_vars, table, query_vars, build_vars,
                   finish_vars, dict_vars>>

NextPipeline == NextFinish \/ AddMetadata \/ WriteParquet \/ NextApply

-----------------------------------------------------------------------------
(* Inputs of the pipeline *)

\* rows as _parse_line leaves them
PipelineRows ==
    { [AGE |-> NinetyPlus, YEAR_OF_DIAGNOSIS |-> <<"2", "0", "2", "0">>,
       SEX |-> <<"1">>],
      [AGE |-> <<"6", "7">>, YEAR_OF_DIAGNOSIS |-> <<"2", "0", "2", "1">>,
       SEX |-> <<"2">>],
      [AGE |-> <<>>, YEAR_OF_DIAGNOSIS |-> <<>>, SEX |-> <<>>] }

PipelineColumns ==
    { {"AGE", "YEAR_OF_DIAGNOSIS", "SEX"}, {"YEAR_OF_DIAGNOSIS", "SEX"} }

Lung == <<"L", "u", "n", "g">>

\* names validate_path accepts: the suffix is .dat in either case
FileNames ==
    { NCDBPUF_ \o Lung \o <<".", "3">> \o DotDat,
      NCDBPUF_ \o Lung \o <<".", "3", ".", "1">> \o DotDat,
      NCDBPUF_ \o Lung \o DotDat,
      NCDBPUF_ \o <<".", "3">> \o DotDat,
      Lung \o <<".", "3">> \o DotDat,
      <<"x">> \o NCDBPUF_ \o Lung \o <<".", "3">> \o DotDat,
      NCDBPUF_ \o Lung \o <<".", "3", ".", "D", "A", "T">>,
      <<"n", "c", "d", "b", "p", "u", "f", "_">> \o Lung \o <<".", "3">>
          \o DotDat }

InitPipeline ==
    /\ pc = "decoded"
    /\ \E cols \in PipelineColumns :
          \E rs \in SeqsUpTo(PipelineRows, MaxRows) :
             df = [i \in 1..Len(rs) |-> [c \in cols |-> rs[i][c]]]
    /\ value_formats \in {<<>>, [SEX |-> SexLabels]}
    /\ input_path \in {FilePath("data", name) : name \in FileNames}
    /\ input_file = <<>>
    /\ columns_file = NoFile
    /\ sas_layout = <<>>
    /\ batch_size = DefaultBatchSize
    /\ column_defs = <<>>
    /\ pos = 0
    /\ batch_data = <<>>
    /\ batches = <<>>
    /\ NoSchema
    /\ NoTable
    /\ NoQuery
    /\ NoBuild
    /\ NoApply
    /\ NoDictionary

SpecPipeline == InitPipeline /\ [][NextPipeline]_vars

-----------------------------------------------------------------------------
(* Properties of the pipeline *)

\* the texts <type> for which the name reads NCDBPUF_<type>.<...>.dat
TypesInName(name) ==
    { SubSeq(name, Len(NCDBPUF_) + 1, k) : k \in
        { k \in (Len(NCDBPUF_) + 1)..Len(name) :
            \E m \in (k + 1)..Len(name) :
                name = NCDBPUF_ \o SubSeq(name, Len(NCDBPUF_) + 1, k)
                           \o <<".">> \o SubSeq(name, k + 2, m)
                           \o DotDat } }

\* the tumor-type part of a name: the shortest text that can stand for
\* <type>, and "Unknown" when the name has not the form
TumorTypePart(name) ==
    IF TypesInName(name) = {} THEN Unknown
    ELSE CHOOSE type \in TypesInName(name) :
            \A other \in TypesInName(name) : Len(type) <= Len(other)

\* C25: attaching the provenance columns gives every row of the output
\* _source_file = the name of the input file and _tumor_type = the
\* tumor-type part of a name of the form NCDBPUF_<type>.<...>.dat, or
\* "Unknown" when the name has not that form; every column the table had
\* keeps its type and its value in every row
C25_ProvenanceOnEveryRow ==
    [][AddMetadata =>
          /\ \A i \in 1..Len(table'.rows) :
                /\ table'.rows[i]["_source_file"] = StrV(input_path.name)
                /\ table'.rows[i]["_tumor_type"]
                      = StrV(TumorTypePart(input_path.name))
          /\ DOMAIN table'.schema
                = DOMAIN table.schema \cup {"_source_file", "_tumor_type"}
          /\ \A c \in DOMAIN table.schema :
                /\ table'.schema[c] = table.schema[c]
                /\ Len(table'.rows) = Len(table.rows)
                /\ \A i \in 1..Len(table.rows) :
                      table'.rows[i][c] = table.rows[i][c]]_vars

\* a table of two rows has been tagged from a name with two dots before
\* its suffix
C25_Witness ==
    /\ pc = "tagged"
    /\ Len(table.rows) = 2
    /\ input_path.name = NCDBPUF_ \o Lung \o <<".", "3", ".", "1">> \o DotDat
    /\ table.rows[2]["_tumor_type"] = StrV(Lung)
    /\ table.rows[2]["_source_file"] = StrV(input_path.name)
    /\ "AGE" \in DOMAIN table.schema
    /\ table.rows[1]["AGE"] = Null

\* C26: after the type conversion of build_dataset, every never-numeric
\* column of the table is a string column that holds the decoded text of
\* every row
C26_NeverNumericStaysString ==
    pc = "coerced" =>
        \A c \in NEVER_NUMERIC \cap DOMAIN table.schema :
            /\ table.schema[c] = Utf8
            /\ \A i \in 1..Len(table.rows) : table.rows[i][c] = StrV(df[i][c])

\* the run of apply_transformations on the file has ended, by an exception
\* or with the file written back
PipelineEnded ==
    \/ pc = "failed"
    \/ pc = "schema_done" /\ originals # <<>> /\ Len(outputs) = Len(originals)

\* C29: when the pipeline has ended, every record whose raw AGE field is
\* "90+" is a row of the final dataset with AGE_AS_INT = 90 and
\* AGE_IS_90_PLUS = true
C29_NinetyPlusReachesFinalDataset ==
    PipelineEnded =>
        \A i \in 1..Len(df) :
            ("AGE" \in DOMAIN df[i] /\ df[i]["AGE"] = NinetyPlus) =>
                /\ pc # "failed"
                /\ "AGE_AS_INT" \in DOMAIN outputs[1].schema
                /\ outputs[1].rows[i]["AGE_AS_INT"] = IntV(90)
                /\ outputs[1].rows[i]["AGE_IS_90_PLUS"] = BoolV(TRUE)

-----------------------------------------------------------------------------
(* Properties of apply_data_type_conversions *)

\* the cell is null or a value of the type
HasType(cell, type) ==
    \/ IsNull(cell)
    \/ type = Utf8 /\ "str" \in DOMAIN cell
    \/ type = Int64 /\ "int" \in DOMAIN cell
    \/ type = Float64 /\ "float" \in DOMAIN cell

\* the number a cell holds, or denotes as 12 or 12.0
NumberOf(cell) ==
    IF "int" \in DOMAIN cell THEN cell.int
    ELSE IF "float" \in DOMAIN cell THEN cell.float
    ELSE LET chars == cell.str
             n == Len(chars)
         IN  IF n > 2 /\ SubSeq(chars, n - 1, n) = <<".", "0">>
             THEN DecimalValue(SubSeq(chars, 1, n - 2))
             ELSE DecimalValue(chars)

\* the columns that are cast: in the table and in the target schema,
\* a never-numeric column only when the target is the string type
ColumnsToCast(schema, target) ==
    { c \in DOMAIN schema \cap DOMAIN target :
        c \in NEVER_NUMERIC => target[c] = Utf8 }

\* C23: the converted table has the columns and the number of rows of the
\* table; a column of the table and of the target schema has the target's
\* type, except a never-numeric column whose target is not the string type;
\* a value of such a column is the same value in the new type, and is
\* missing exactly when it was missing or is a text that denotes no
\* number; every other column keeps its type and its values
C23_ExactlySharedColumnsCast ==
    pc = "converted" =>
        LET before == originals[1]
            cast == ColumnsToCast(before.schema, optimal_schema)
        IN  /\ DOMAIN table.schema = DOMAIN before.schema
            /\ Len(table.rows) = Len(before.rows)
            /\ \A c \in DOMAIN before.schema :
                  IF c \in cast
                  THEN /\ table.schema[c] = optimal_schema[c]
                       /\ \A i \in 1..Len(before.rows) :
                             LET old == before.rows[i][c]
                                 new == table.rows[i][c]
                             IN  /\ HasType(new, optimal_schema[c])
                                 /\ IsNull(new) <=>
                                       \/ IsNull(old)
                                       \/ /\ before.schema[c] = Utf8
                                          /\ optimal_schema[c] # Utf8
                                          /\ ~IsNumeral(old)
                                 /\ ~IsNull(new) =>
                                       IF optimal_schema[c] = before.schema[c]
                                       THEN new = old
                                       ELSE NumberOf(new) = NumberOf(old)
                  ELSE /\ table.schema[c] = before.schema[c]
                       /\ \A i \in 1..Len(before.rows) :
                             table.rows[i][c] = before.rows[i][c]

\* a table with a string AGE column holding "90+" and 67 and a string
\* YEAR_OF_DIAGNOSIS column has been converted to a target schema that
\* gives Int64 for both and names SEX, a column the table has not: AGE is
\* cast, YEAR_OF_DIAGNOSIS is left as it was
C23_Witness ==
    /\ pc = "converted"
    /\ DOMAIN optimal_schema = {"AGE", "YEAR_OF_DIAGNOSIS", "SEX"}
    /\ optimal_schema["AGE"] = Int64
    /\ optimal_schema["YEAR_OF_DIAGNOSIS"] = Int64
    /\ DOMAIN table.schema = {"AGE", "YEAR_OF_DIAGNOSIS", "TUMOR_SIZE"}
    /\ originals[1].schema["AGE"] = Utf8
    /\ originals[1].schema["YEAR_OF_DIAGNOSIS"] = Utf8
    /\ table.schema["AGE"] = Int64
    /\ table.rows[1]["AGE"] = Null
    /\ table.rows[2]["AGE"] = IntV(67)
    /\ table.schema["YEAR_OF_DIAGNOSIS"] = Utf8
    /\ table.rows[1]["YEAR_OF_DIAGNOSIS"] = StrV(<<"2", "0", "2", "0">>)

-----------------------------------------------------------------------------
(* Properties of a whole run of apply_transformations *)

\* every file of the directory has been written back
RunCompleted ==
    /\ pc = "schema_done"
    /\ originals # <<>>
    /\ Len(outputs) = Len(originals)

\* the columns of all the files the run started from
ColumnsOfAllFiles ==
    UNION {DOMAIN originals[k].schema : k \in 1..Len(originals)}

\* the global schema covers the columns of all files, and no file is
\* written back before it is settled
SchemaFromAllFilesFirst ==
    /\ RunCompleted => DOMAIN optimal_schema = ColumnsOfAllFiles
    /\ outputs # <<>> =>
          /\ pc = "schema_done"
          /\ file_idx = Len(parquet_files)
          /\ DOMAIN optimal_schema = ColumnsOfAllFiles

DerivedTypes(present) ==
    [c \in {d \in DerivedColumns :
              \/ d \in {"AGE_AS_INT", "AGE_IS_90_PLUS"} /\ "AGE" \in present
              \/ d = "SITE_GROUP" /\ "PRIMARY_SITE" \in present
              \/ d = "HISTOLOGY_GROUP" /\ "HISTOLOGY" \in present} |->
        IF c = "AGE_AS_INT" THEN Int64
        ELSE IF c = "AGE_IS_90_PLUS" THEN Boolean
        ELSE Utf8]

=============================================================================
